---- MODULE Spec2Model ----
(***************************************************************************)
(* A state-machine model of the WebXR layers polyfill: the session shim    *)
(* (XRSessionWithLayer), the layer entities, the WebGL binding with its    *)
(* sub-image cache, and the frame compositor.                              *)
(***************************************************************************)
EXTENDS Integers, Sequences, FiniteSets, TLC

\* ------------------------------------------------------------------ bounds
MaxLayers == 2      \* layer objects the application creates
MaxList == 2        \* length of a layers array passed to updateRenderState
MaxQueue == 2       \* tasks that may wait in the session's task queue
MaxAllocs == 2      \* texture allocations of one layer (destroy() frees them)
MaxPending == 1     \* frame requests pending at once
MaxSubImages == 3   \* sub-image objects constructed in one frame
MaxTextureSize == 4 \* width and height of a texture handed to initializeViewport
MaxPacked == 3      \* views packed into one texture
MaxVideoSize == 3   \* videoWidth and videoHeight of a media layer's video
MaxLayerSize == 2   \* width and height a media layer init may give
MaxFeatures == 3    \* entries of a session init's requiredFeatures
MaxViews == 2       \* views of the viewer pose of a frame

LayerIds == 1..MaxLayers
WebGLLayerEntry == MaxLayers + 1   \* an XRWebGLLayer put into the layers array
Eyes == {"none", "left", "right"}
\* the XRView objects of a frame's viewer pose, and the keys under which a
\* frame's sub-images are asked for: an eye (getSubImage) or a view
\* (getViewSubImage)
Views == {"view0", "view1"}
SubImageKeys == Eyes \cup Views
\* the values of a layer's needsRedraw field: a JS boolean, or undefined before
\* the field is first assigned
Undefined == "undefined"
JSTrue == "true"
JSFalse == "false"

VARIABLES
    global,             \* the page's global object: navigator.xr, the binding classes, XRSession.prototype
    ended,              \* the underlying session has ended (session.ended)
    webgl2,             \* the binding's context is a WebGL2RenderingContext
    deviceViews,        \* number of views the host's viewer pose reports
    referenceSpace,     \* session.referenceSpace is set ('local' resolved)
    localSpace,         \* the session's request for a 'local' reference space
    views,              \* session.views (its length)
    initializedViews,   \* session.initializedViews
    isPolyfillActive,   \* session.isPolyfillActive
    layers,             \* session.layers: the active layer list
    internalLayer,      \* session.internalLayer: 0 = none, else its identity
    existingBaseLayer,  \* session.existingBaseLayer: "none" or "app"
    context,            \* session.context: "none", "binding" or "own"
    tempFramebuffer,    \* session.tempFramebuffer exists
    taskQueue,          \* session.taskQueue: layer ids whose needsRedraw to reset
    forwarded,          \* the init last handed to the underlying updateRenderState
    L,                  \* the layer objects: id -> record (created or not)
    cache,              \* the binding's SubImageCache.cache
    viewCache,          \* the binding's SubImageCache.viewCache
    subImages,          \* sub-image objects the binding returned new in the running frame
    gl,                 \* the GL state of the context the session draws with
    pending,            \* frame requests pending in the underlying session
    injectedFrameCallback, \* the callback the injected frame callback calls
    requested,          \* the callbacks passed with the pending frame requests
    pc,                 \* "idle", or "app" while the application callback runs
    framePose,          \* whether the running frame yields a viewer pose
    frameContext,       \* session.context as the running frame callback read it
    trace,              \* the shim's steps so far in the frame that is running
    frameSubs,          \* first sub-image returned per (layer, eye or view) in this frame
    consumed,           \* per static layer: "called" after a successful getSubImage, "flushed" after the task flush that followed, "fresh" once needsRedraw is set true from outside
    ret                 \* what the last step returned to its caller

vars == << global, ended, webgl2, deviceViews, referenceSpace, localSpace, views, initializedViews,
           isPolyfillActive, layers, internalLayer, existingBaseLayer, context,
           tempFramebuffer, taskQueue, forwarded, L, cache, viewCache, subImages,
           gl, pending, injectedFrameCallback, requested, pc, framePose, frameContext, trace, frameSubs, consumed,
           ret >>

\* ------------------------------------------------------------- small helpers
Frac(n, d) == [num |-> n, den |-> d]
FracEq(a, b) == a.num * b.den = b.num * a.den

RECURSIVE SeqToSet(_)
SeqToSet(s) == IF s = <<>> THEN {} ELSE {Head(s)} \cup SeqToSet(Tail(s))

NoRet == [op |-> "none"]
NoCache == [set |-> FALSE]
NoForward == [sent |-> FALSE]

\* ------------------------------------------------------------ layer entities
LayerTypes == {"projection", "quad", "cylinder", "equirect", "cube"}
FlatTypes == {"quad", "cylinder", "equirect"}
Layouts == {"default", "mono", "stereo", "stereo-left-right", "stereo-top-bottom"}
TextureTypes == {"texture", "texture-array"}

NoLayer == [created |-> FALSE]

IsLayer(l) == l \in LayerIds /\ L[l].created
IsProjection(l) == IsLayer(l) /\ L[l].type = "projection"

\* determineLayoutAttribute: "throw" stands for the TypeError
determineLayoutAttribute(textureType, isWebGL2, layout, numViews) ==
    IF ~isWebGL2 /\ textureType = "texture-array" THEN "throw"
    ELSE IF layout = "mono" THEN layout
    ELSE IF layout = "default" /\ numViews = 1 THEN "mono"
    ELSE IF layout = "default" /\ textureType = "texture-array" THEN layout
    ELSE IF layout = "default" \/ layout = "stereo" THEN "stereo-left-right"
    ELSE layout

\* _createGenericPolyfillTexture: the metadata of a fresh texture
PolyfillTexture(id, gen, slot, width, height, textureType, numLayers) ==
    [texture |-> <<id, gen, slot>>, width |-> width, height |-> height,
     layers |-> numLayers, type |-> textureType]

RECURSIVE TexturesOf(_)
TexturesOf(metas) ==
    IF metas = <<>> THEN <<>> ELSE <<Head(metas).texture>> \o TexturesOf(Tail(metas))

\* The host's base-layer framebuffer size and the layers' viewPixelWidth/Height
BaseLayerSize == [framebufferWidth |-> 8, framebufferHeight |-> 4]
ViewPixels == [viewPixelWidth |-> 4, viewPixelHeight |-> 2]

\* whether a layer init asks for depth/stencil textures: its depthFormat is
\* set and not 0 (default: what the layer type's default init holds)
DepthFormatOf(init, default) ==
    IF "depthFormat" \in DOMAIN init THEN init.depthFormat ELSE default

\* the contexts' WEBGL_depth_texture extension: WebGL 1 contexts enable it
DepthTextureExtension == TRUE

\* (a layer's depthAssigned tells whether its _depthStencilTextures field was
\* ever assigned; until then the field is undefined and the model's list <<>>)
\* the depth/stencil textures of a layer: slot 0 .. n - 1 (their second
\* component 0 tells them from color textures, whose allocations count from 1)
RECURSIVE DepthTextures(_, _)
DepthTextures(id, n) ==
    IF n = 0 THEN <<>> ELSE DepthTextures(id, n - 1) \o << << id, 0, n - 1 >> >>

\* A layer object right after its constructor (XRQuadLayer, XRCylinderLayer,
\* XREquirectLayer: layout and isStatic from init, needsRedraw not yet assigned)
NewFlatLayer(id, type, init) ==
    [created |-> TRUE, id |-> id, type |-> type, init |-> init,
     layout |-> init.layout, isStatic |-> init.isStatic,
     needsRedraw |-> Undefined, hasRunDeferredInitialize |-> FALSE,
     colorTextures |-> <<>>, texturesMeta |-> <<>>, gen |-> 0,
     depthFormat |-> DepthFormatOf(init, FALSE),
     depthAssigned |-> FALSE, depthStencilTextures |-> <<>>]

\* XRCompositionLayerPolyfill.initializeIfNeeded with the flat layers'
\* _deferredInitialize; threw = the TypeError of determineLayoutAttribute
FlatInitializeIfNeeded(lr, numViews) ==
    IF lr.hasRunDeferredInitialize THEN [layer |-> lr, threw |-> FALSE]
    ELSE LET layout == determineLayoutAttribute(lr.init.textureType, webgl2,
                                                lr.init.layout, numViews)
             ran == [lr EXCEPT !.hasRunDeferredInitialize = TRUE]
         IN IF layout = "throw" THEN [layer |-> ran, threw |-> TRUE]
            ELSE [layer |-> [ran EXCEPT !.layout = layout, !.needsRedraw = JSTrue],
                  threw |-> FALSE]

\* one texture of the view's size whatever the layout packs into it
FlatColorTexturesOfViewSize(lr, gen) ==
    IF lr.layout = "default" THEN <<>>
    ELSE << PolyfillTexture(lr.id, gen, 0, ViewPixels.viewPixelWidth,
                            ViewPixels.viewPixelHeight, lr.init.textureType, 1) >>

\* the texture metadata _allocateColorTexturesInternal creates for a layout
FlatColorTextures(lr, gen) ==
    LET w == ViewPixels.viewPixelWidth
        h == ViewPixels.viewPixelHeight
        tt == lr.init.textureType
    IN CASE lr.layout = "mono" -> << PolyfillTexture(lr.id, gen, 0, w, h, tt, 1) >>
         [] lr.layout = "stereo" /\ tt = "texture-array" ->
                << PolyfillTexture(lr.id, gen, 0, w, h, tt, 2) >>
         [] lr.layout = "stereo" /\ tt = "texture" ->
                << PolyfillTexture(lr.id, gen, 0, w, h, tt, 1),
                   PolyfillTexture(lr.id, gen, 1, w, h, tt, 1) >>
         [] lr.layout = "stereo-left-right" ->
                << PolyfillTexture(lr.id, gen, 0, w * 2, h, tt, 1) >>
         [] lr.layout = "stereo-top-bottom" ->
                << PolyfillTexture(lr.id, gen, 0, w, h * 2, tt, 1) >>
         [] OTHER -> <<>>

\* _allocateColorTexturesInternal of a quad, cylinder or equirect layer
AllocateColorTexturesInternal(lr, numViews) ==
    IF numViews = 0 THEN [layer |-> lr, threw |-> FALSE]
    ELSE LET r == FlatInitializeIfNeeded(lr, numViews)
             metas == FlatColorTextures(r.layer, r.layer.gen + 1)
         IN IF r.threw THEN r
            ELSE IF metas = <<>> THEN r
            \* _createGenericPolyfillTexture: WebGL 1 does not support texture array
            ELSE IF r.layer.init.textureType = "texture-array" /\ ~webgl2
                 THEN [layer |-> r.layer, threw |-> TRUE]
            ELSE [layer |-> [r.layer EXCEPT !.texturesMeta = metas,
                                            !.colorTextures = TexturesOf(metas),
                                            !.gen = @ + 1],
                  threw |-> FALSE]

\* n textures of one view each (the loop over views of a projection layer)
RECURSIVE PerViewTextures(_, _, _, _, _)
PerViewTextures(id, gen, n, w, h) ==
    IF n = 0 THEN <<>>
    ELSE PerViewTextures(id, gen, n - 1, w, h)
         \o << PolyfillTexture(id, gen, n - 1, w, h, "texture", 1) >>

\* _allocateProjectionColorTextures
AllocateProjectionColorTextures(lr, numViews) ==
    IF numViews = 0 THEN [layer |-> lr, threw |-> FALSE]
    ELSE LET gen == lr.gen + 1
             w == BaseLayerSize.framebufferWidth \div numViews
             h == BaseLayerSize.framebufferHeight
             tt == lr.init.textureType
             metas ==
               CASE lr.layout \in {"mono", "default"} /\ tt = "texture-array" ->
                      << PolyfillTexture(lr.id, gen, 0, w, h, "texture-array", numViews) >>
                 [] lr.layout \in {"mono", "default"} /\ tt = "texture" ->
                      PerViewTextures(lr.id, gen, numViews, w, h)
                 [] lr.layout = "stereo-left-right" ->
                      << PolyfillTexture(lr.id, gen, 0, w * numViews, h, tt, 1) >>
                 [] lr.layout = "stereo-top-bottom" ->
                      << PolyfillTexture(lr.id, gen, 0, w, h * numViews, tt, 1) >>
                 [] OTHER -> <<>>
         IN [layer |-> [lr EXCEPT !.texturesMeta = metas,
                                  !.colorTextures = TexturesOf(metas),
                                  !.gen = @ + 1],
             threw |-> FALSE]

\* the getter that allocates at every read
GetColorTexturesFresh(lr, numViews) ==
    IF lr.type = "cube" THEN [layer |-> lr, threw |-> FALSE]
    ELSE IF lr.type = "projection" THEN AllocateProjectionColorTextures(lr, numViews)
    ELSE AllocateColorTexturesInternal(lr, numViews)

\* the colorTextures getter of a layer: allocates when the layer holds none
\* (cube layers use the base class getter, which never allocates)
GetColorTextures(lr, numViews) ==
    IF lr.colorTextures # <<>> \/ lr.type = "cube" THEN [layer |-> lr, threw |-> FALSE]
    ELSE IF lr.type = "projection" THEN AllocateProjectionColorTextures(lr, numViews)
    ELSE AllocateColorTexturesInternal(lr, numViews)

\* _allocateDepthStencilTexturesInternal of a quad, cylinder or equirect
\* layer: it asks neither for the session's views nor for initializeIfNeeded,
\* and allocates for the layout the layer holds at the time
AllocateDepthStencilTexturesInternal(lr) ==
    IF ~lr.depthFormat
    THEN [layer |-> [lr EXCEPT !.depthAssigned = TRUE, !.depthStencilTextures = <<>>],
          threw |-> FALSE]
    \* _getSupportedDepthFormats is empty on WebGL 1 without the extension
    ELSE IF ~webgl2 /\ ~DepthTextureExtension THEN [layer |-> lr, threw |-> TRUE]
    ELSE IF lr.layout = "default" THEN [layer |-> lr, threw |-> FALSE]
    \* _createGenericPolyfillTexture: WebGL 1 does not support texture array
    ELSE IF lr.init.textureType = "texture-array" /\ ~webgl2
    THEN [layer |-> lr, threw |-> TRUE]
    ELSE [layer |-> [lr EXCEPT !.depthAssigned = TRUE, !.depthStencilTextures =
                        DepthTextures(lr.id,
                            IF lr.layout = "stereo" /\ lr.init.textureType = "texture"
                            THEN 2 ELSE 1)],
          threw |-> FALSE]

\* _allocateProjectionDepthStencilTextures
AllocateProjectionDepthStencilTextures(lr, numViews) ==
    IF numViews = 0 THEN lr
    ELSE IF ~lr.depthFormat
    THEN [lr EXCEPT !.depthAssigned = TRUE, !.depthStencilTextures = <<>>]
    ELSE IF ~webgl2 /\ ~DepthTextureExtension
    THEN [lr EXCEPT !.depthAssigned = TRUE, !.depthStencilTextures = <<>>]
    ELSE [lr EXCEPT !.depthAssigned = TRUE, !.depthStencilTextures =
            DepthTextures(lr.id,
                IF lr.layout \in {"mono", "default"} /\ lr.init.textureType = "texture"
                THEN numViews ELSE 1)]

\* the depthStencilTextures getter of a layer: a projection layer allocates
\* while the field is undefined, a quad, cylinder or equirect layer while the
\* list is undefined or empty, a cube layer never
GetDepthStencilTextures(lr, numViews) ==
    IF lr.type = "cube" THEN [layer |-> lr, threw |-> FALSE]
    ELSE IF lr.type = "projection"
    THEN [layer |-> IF ~lr.depthAssigned
                    THEN AllocateProjectionDepthStencilTextures(lr, numViews)
                    ELSE lr,
          threw |-> FALSE]
    ELSE IF lr.depthStencilTextures = <<>>
    THEN AllocateDepthStencilTexturesInternal(lr)
    ELSE [layer |-> lr, threw |-> FALSE]

\* ------------------------------------------------------------ session shim
\* createInternalLayer(ctx) with setContext: ctx = "none" is an undefined
\* argument; the result is the session's (internalLayer, context, tempFramebuffer)
createInternalLayer(ctx, sess) ==
    IF ctx = "none" /\ sess.internalLayer # 0 THEN sess
    ELSE IF ctx = sess.context /\ sess.internalLayer # 0 THEN sess
    ELSE [internalLayer |-> sess.internalLayer + 1, context |-> ctx,
          tempFramebuffer |-> TRUE]

Session == [internalLayer |-> internalLayer, context |-> context,
            tempFramebuffer |-> tempFramebuffer]

\* getBaseLayer(context?): creates the internal layer when the session has
\* neither an internal nor an application base layer
getBaseLayerSession(ctx) ==
    IF internalLayer = 0 /\ existingBaseLayer = "none" /\ ctx # "none"
    THEN createInternalLayer(ctx, Session)
    ELSE Session

\* what getBaseLayer() returns: internalLayer || existingBaseLayer
BaseLayerOf(intLayer, existing) ==
    IF intLayer # 0 THEN [kind |-> "internal", id |-> intLayer]
    ELSE [kind |-> existing, id |-> 0]

getBaseLayer == BaseLayerOf(internalLayer, existingBaseLayer)

\* the context of the first composition layer of a layers array, if any
RECURSIVE FirstLayerContext(_)
FirstLayerContext(list) ==
    IF list = <<>> THEN "none"
    ELSE IF Head(list) # WebGLLayerEntry THEN "binding"
    ELSE FirstLayerContext(Tail(list))

\* the frame's record belongs to the frame callback: no other step touches it
KeepTrace == UNCHANGED trace

\* ----------------------------------------------------------- layer creation
NextLayerId == IF \E l \in LayerIds : ~L[l].created
               THEN CHOOSE l \in LayerIds : ~L[l].created /\ \A k \in 1..(l-1) : L[k].created
               ELSE 0

\* the outcome of a create*Layer call: the layer it returned, or the error it
\* threw (id is the layer the call would have made)
CreateLayerOutcome(type, init, id, error) ==
    [op |-> "createLayer", type |-> type, init |-> init, id |-> id,
     ok |-> (error = "none"), error |-> error,
     layer |-> IF error = "none" THEN id ELSE 0]

\* XRWebGLBinding.createQuadLayer / createCylinderLayer / createEquirectLayer
CreateFlatLayer(type, init) ==
    /\ NextLayerId # 0
    /\ IF ended
       THEN /\ ret' = CreateLayerOutcome(type, init, NextLayerId, "Error")
            /\ L' = L
       ELSE IF init.layout = "default"
       THEN /\ ret' = CreateLayerOutcome(type, init, NextLayerId, "TypeError")
            /\ L' = L
       ELSE /\ L' = [L EXCEPT ![NextLayerId] = NewFlatLayer(NextLayerId, type, init)]
            /\ ret' = CreateLayerOutcome(type, init, NextLayerId, "none")
    /\ KeepTrace
    /\ UNCHANGED << viewCache, subImages, global, ended, webgl2, deviceViews, referenceSpace, localSpace, views, initializedViews,
                    isPolyfillActive, layers, internalLayer, existingBaseLayer,
                    context, tempFramebuffer, taskQueue, forwarded, cache, gl,
                    pending, injectedFrameCallback, requested, pc, framePose, frameContext, frameSubs, consumed >>

\* XRWebGLBinding.createProjectionLayer with XRProjectionLayer.initialize and
\* its _deferredInitialize
CreateProjectionLayer(init) ==
    LET id == NextLayerId
        layout == determineLayoutAttribute(init.textureType, webgl2, "default", views)
        sess == getBaseLayerSession("binding")
    IN /\ id # 0
       /\ IF ended
          THEN /\ ret' = CreateLayerOutcome("projection", init, id, "Error")
               /\ UNCHANGED << L, internalLayer, context, tempFramebuffer >>
          ELSE IF layout = "throw"
          THEN /\ ret' = CreateLayerOutcome("projection", init, id, "TypeError")
               /\ UNCHANGED << L, internalLayer, context, tempFramebuffer >>
          ELSE /\ L' = [L EXCEPT ![id] =
                          [created |-> TRUE, id |-> id, type |-> "projection",
                           init |-> [layout |-> "default", isStatic |-> FALSE,
                                     textureType |-> init.textureType],
                           layout |-> layout, isStatic |-> FALSE,
                           needsRedraw |-> JSTrue, hasRunDeferredInitialize |-> TRUE,
                           colorTextures |-> <<>>, texturesMeta |-> <<>>, gen |-> 0,
                           depthFormat |-> DepthFormatOf(init, TRUE),
                           depthAssigned |-> FALSE,
                           depthStencilTextures |-> <<>>]]
               /\ internalLayer' = sess.internalLayer
               /\ context' = sess.context
               /\ tempFramebuffer' = sess.tempFramebuffer
               /\ ret' = CreateLayerOutcome("projection", init, id, "none")
       /\ KeepTrace
       /\ UNCHANGED << viewCache, subImages, global, ended, webgl2, deviceViews, referenceSpace, localSpace, views, initializedViews,
                       isPolyfillActive, layers, existingBaseLayer, taskQueue,
                       forwarded, cache, gl, pending, injectedFrameCallback, requested, pc, framePose, frameContext, frameSubs,
                       consumed >>

\* one cube texture whatever the layout
CubeColorTexturesMono(id, layout) ==
    << PolyfillTexture(id, 1, 0, ViewPixels.viewPixelWidth,
                       ViewPixels.viewPixelHeight, "texture", 1) >>

\* the cube textures XRCubeLayer.initialize allocates: 1 for mono, else 2
CubeColorTextures(id, layout) ==
    LET w == ViewPixels.viewPixelWidth
        h == ViewPixels.viewPixelHeight
    IN IF layout = "mono"
       THEN << PolyfillTexture(id, 1, 0, w, h, "texture", 1) >>
       ELSE << PolyfillTexture(id, 1, 0, w, h, "texture", 1),
               PolyfillTexture(id, 1, 1, w, h, "texture", 1) >>

\* the depth/stencil textures XRCubeLayer.initialize allocates: none without
\* a depthFormat, else 1 for mono and 2 for stereo
CubeDepthStencilTextures(id, layout, depthFormat) ==
    IF ~depthFormat THEN <<>>
    ELSE DepthTextures(id, IF layout = "mono" THEN 1 ELSE 2)

\* XRWebGLBinding.createCubeLayer with the XRCubeLayer constructor and initialize
CreateCubeLayer(init) ==
    LET id == NextLayerId
        metas == CubeColorTextures(id, init.layout)
    IN /\ id # 0
       /\ IF ended \/ ~webgl2
          THEN /\ ret' = CreateLayerOutcome("cube", init, id, "Error")
               /\ L' = L
          ELSE IF init.layout \in {"default", "stereo-left-right", "stereo-top-bottom"}
          THEN /\ ret' = CreateLayerOutcome("cube", init, id, "TypeError")
               /\ L' = L
          ELSE /\ L' = [L EXCEPT ![id] =
                          [created |-> TRUE, id |-> id, type |-> "cube",
                           init |-> [layout |-> init.layout, isStatic |-> init.isStatic,
                                     textureType |-> "texture"],
                           layout |-> init.layout, isStatic |-> init.isStatic,
                           needsRedraw |-> JSTrue, hasRunDeferredInitialize |-> FALSE,
                           colorTextures |-> TexturesOf(metas), texturesMeta |-> metas,
                           gen |-> 1,
                           depthFormat |-> DepthFormatOf(init, FALSE),
                           depthAssigned |-> TRUE,
                           depthStencilTextures |->
                               CubeDepthStencilTextures(id, init.layout,
                                                        DepthFormatOf(init, FALSE))]]
               /\ ret' = CreateLayerOutcome("cube", init, id, "none")
       /\ KeepTrace
       /\ UNCHANGED << viewCache, subImages, global, ended, webgl2, deviceViews, referenceSpace, localSpace, views, initializedViews,
                       isPolyfillActive, layers, internalLayer, existingBaseLayer,
                       context, tempFramebuffer, taskQueue, forwarded, cache, gl,
                       pending, injectedFrameCallback, requested, pc, framePose, frameContext, frameSubs, consumed >>

\* ------------------------------------------------------- updateRenderState
\* the application's init handed on as it came
ForwardedInitUnchanged(init, intLayer) ==
    [sent |-> TRUE, hasLayers |-> init.hasLayers,
     baseLayer |-> [kind |-> init.baseLayer, id |-> 0]]

\* the init updateRenderState hands to the underlying session when the
\* application's init has layers: a copy without 'layers' whose baseLayer is
\* the internal layer
ForwardedInit(init, intLayer) ==
    [sent |-> TRUE, hasLayers |-> FALSE,
     baseLayer |-> [kind |-> "internal", id |-> intLayer]]

\* XRSessionWithLayer.updateRenderState; init = [hasLayers, layers, baseLayer]
updateRenderState(init) ==
    LET ctx0 == FirstLayerContext(init.layers)
        \* no context anywhere: the session makes one on a canvas of its own
        ctx == IF ctx0 = "none" /\ context = "none" THEN "own" ELSE ctx0
        sess == createInternalLayer(ctx, Session)
    IN /\ existingBaseLayer' = init.baseLayer
       /\ IF ~init.hasLayers
          THEN /\ forwarded' = [sent |-> TRUE, hasLayers |-> init.hasLayers,
                                baseLayer |-> [kind |-> init.baseLayer, id |-> 0]]
               /\ UNCHANGED << layers, internalLayer, context, tempFramebuffer,
                               isPolyfillActive >>
          ELSE /\ layers' = init.layers
               /\ internalLayer' = sess.internalLayer
               /\ context' = sess.context
               /\ tempFramebuffer' = sess.tempFramebuffer
               /\ isPolyfillActive' = TRUE
               /\ forwarded' = ForwardedInit(init, sess.internalLayer)
       /\ ret' = [op |-> "updateRenderState", init |-> init]
       /\ KeepTrace
       /\ UNCHANGED << viewCache, subImages, global, ended, webgl2, deviceViews, referenceSpace, localSpace, views, initializedViews,
                       taskQueue, L, cache, gl, pending, injectedFrameCallback, requested, pc, framePose, frameContext, frameSubs,
                       consumed >>

\* updateRenderState keeps the caller's array itself (this.layers =
\* XRRenderStateInit.layers), not a copy of it
StoresCallersArray == TRUE

\* the application changes the array it passed to updateRenderState: it adds,
\* removes or reorders entries, leaving the array as a
MutateLayersArray(a) ==
    /\ isPolyfillActive
    /\ a # layers
    /\ layers' = IF StoresCallersArray THEN a ELSE layers
    /\ ret' = [op |-> "mutateLayersArray", before |-> layers, array |-> a]
    /\ KeepTrace
    /\ UNCHANGED << viewCache, subImages, global, ended, webgl2, deviceViews,
                    referenceSpace, localSpace, views, initializedViews, isPolyfillActive,
                    internalLayer, existingBaseLayer, context, tempFramebuffer,
                    taskQueue, forwarded, L, cache, gl, pending, injectedFrameCallback, requested, pc, framePose,
                    frameContext, frameSubs, consumed >>

\* ------------------------------------------------------- sub-image resolver
\* the viewport of the whole texture, whatever the layout
initializeViewportOfWholeTexture(texture, layout, offset, numViews) ==
    [x |-> Frac(0, 1), y |-> Frac(0, 1),
     width |-> Frac(texture.width, 1), height |-> Frac(texture.height, 1)]

\* utils/initialize-viewport: the viewport of view `offset` of `numViews`
\* packed into `texture`; JS number division, kept as exact fractions
initializeViewport(texture, layout, offset, numViews) ==
    IF layout = "stereo-left-right"
    THEN [x |-> Frac(texture.width * offset, numViews), y |-> Frac(0, 1),
          width |-> Frac(texture.width, numViews), height |-> Frac(texture.height, 1)]
    ELSE IF layout = "stereo-top-bottom"
    THEN [x |-> Frac(0, 1), y |-> Frac(texture.height * offset, numViews),
          width |-> Frac(texture.width, 1), height |-> Frac(texture.height, numViews)]
    ELSE [x |-> Frac(0, 1), y |-> Frac(0, 1),
          width |-> Frac(texture.width, 1), height |-> Frac(texture.height, 1)]

\* SubImageCache.tryGetCachedSubImage: the cache holds one (layer, eye) entry
\* per context, cacheSubImage replacing the context's whole layer map
tryGetCachedSubImage(l, eye) ==
    cache.set /\ cache.layer = l /\ cache.eye = eye

\* the session an XRFrame handed to getSubImage belongs to: the binding's
\* session or another one
FrameSessions == {"session", "other"}

\* validateStateofSubImageCreation after the layer's colorTextures were read
\* (every layer is made by the one binding of the session, so the binding's
\* session and context are the layer's; the frame may be another session's)
validateStateofSubImageCreation(lr, frameSession) ==
    /\ frameSession = "session"
    /\ lr.colorTextures # <<>>
    /\ ~(lr.isStatic /\ lr.needsRedraw = JSFalse)

SubImageFailure(lr, error) ==
    [ok |-> FALSE, error |-> error, layer |-> lr, fresh |-> FALSE]

\* no texture: the null or undefined depthStencilTexture of a sub-image
NullTexture == << 0, 0, 0 >>

\* a sub-image's depthStencilTexture: null when the layer has none, else the
\* layer's depth/stencil texture at the index of the color texture
DepthStencilTextureAt(lr, textureIndex) ==
    IF textureIndex + 1 > Len(lr.depthStencilTextures) THEN NullTexture
    ELSE lr.depthStencilTextures[textureIndex + 1]

\* the sub-image getSubImage builds once its checks have passed; obj is the
\* identity of the new XRWebGLSubImagePolyfill object: its number among the
\* sub-images returned new in the running frame (0 for one of an earlier frame)
NewSubImage(lr, eye) ==
    LET index == IF lr.layout = "stereo" /\ eye = "right" THEN 1 ELSE 0
        tt == lr.init.textureType
        textureIndex == IF tt = "texture" THEN index ELSE 0
        layerMeta == lr.texturesMeta[textureIndex + 1]
        viewsPerTexture == IF lr.layout \in {"stereo-left-right", "stereo-top-bottom"}
                           THEN 2 ELSE 1
    IN [obj |-> subImages + 1,
        colorTexture |-> lr.colorTextures[textureIndex + 1],
        depthStencilTexture |-> DepthStencilTextureAt(lr, textureIndex),
        imageIndex |-> IF tt = "texture-array" THEN index ELSE 0,
        textureWidth |-> layerMeta.width,
        textureHeight |-> layerMeta.height,
        viewport |-> initializeViewport(layerMeta, lr.layout, index, viewsPerTexture)]

\* the end of a getSubImage call that passed its checks: the sub-image is
\* built, the reset of needsRedraw is queued (fresh), the layer is left as it is
SubImageSuccess(lr, eye) ==
    LET d == GetDepthStencilTextures(lr, views).layer
    IN [ok |-> TRUE, sub |-> NewSubImage(d, eye), layer |-> d, fresh |-> TRUE]

\* XRWebGLBinding.getSubImage(layer, frame, eye): its outcome, the layer object
\* after the call, and whether a new sub-image was built (queued and cached)
getSubImageIn(l, eye, frameSession) ==
    LET lr == L[l]
        g == GetColorTextures(lr, views)
    IN IF lr.isStatic /\ lr.needsRedraw = JSFalse
       THEN SubImageFailure(lr, "Error")
       ELSE IF tryGetCachedSubImage(l, eye)
       THEN [ok |-> TRUE, sub |-> cache.sub, layer |-> lr, fresh |-> FALSE]
       ELSE IF lr.type = "projection" THEN SubImageFailure(lr, "TypeError")
       ELSE IF lr.layout = "default" THEN SubImageFailure(lr, "TypeError")
       \* the colorTextures getter threw: determineLayoutAttribute's TypeError on
       \* the first access, _createGenericPolyfillTexture's Error on a later one
       ELSE IF g.threw
       THEN SubImageFailure(g.layer, IF lr.hasRunDeferredInitialize
                                     THEN "Error" ELSE "TypeError")
       ELSE IF ~validateStateofSubImageCreation(g.layer, frameSession)
       THEN SubImageFailure(g.layer, "Error")
       ELSE IF g.layer.layout = "stereo" /\ eye = "none"
       THEN SubImageFailure(g.layer, "TypeError")
       ELSE SubImageSuccess(g.layer, eye)

\* getSubImage with the frame of the running frame callback
getSubImage(l, eye) == getSubImageIn(l, eye, "session")

NoSub == [none |-> TRUE]

\* the application calls binding.getSubImage inside its frame callback, with
\* the callback's frame or with a frame of another session
GetSubImageIn(l, eye, frameSession) ==
    LET r == getSubImageIn(l, eye, frameSession)
        cached == IF r.fresh
                  THEN [set |-> TRUE, layer |-> l, eye |-> eye, sub |-> r.sub]
                  ELSE cache
        queued == IF r.fresh THEN Append(taskQueue, l) ELSE taskQueue
    IN /\ pc = "app"
       /\ IsLayer(l)
       /\ r.fresh => Len(taskQueue) < MaxQueue /\ subImages < MaxSubImages
       /\ L' = [L EXCEPT ![l] = r.layer]
       /\ subImages' = IF r.fresh THEN subImages + 1 ELSE subImages
       /\ taskQueue' = queued
       /\ cache' = cached
       /\ frameSubs' = IF r.ok /\ frameSubs[<<l, eye>>] = NoSub
                       THEN [frameSubs EXCEPT ![<<l, eye>>] = r.sub]
                       ELSE frameSubs
       /\ consumed' = IF r.ok /\ L[l].isStatic
                      THEN [consumed EXCEPT ![l] = "called"] ELSE consumed
       /\ ret' = [op |-> "getSubImage", layer |-> l, eye |-> eye, ok |-> r.ok,
                  frameSession |-> frameSession,
                  error |-> IF r.ok THEN "none" ELSE r.error,
                  layoutBefore |-> L[l].layout,
                  cacheKept |-> (cached = cache),
                  queueKept |-> (queued = taskQueue),
                  sub |-> IF r.ok THEN r.sub ELSE NoSub,
                  fresh |-> r.fresh,
                  first |-> frameSubs[<<l, eye>>],
                  needsRedrawBefore |-> L[l].needsRedraw,
                  consumedBefore |-> consumed[l],
                  ranDeferredInitialize |->
                      (~L[l].hasRunDeferredInitialize
                       /\ r.layer.hasRunDeferredInitialize)]
       /\ UNCHANGED << viewCache, global, ended, webgl2, deviceViews, referenceSpace, localSpace, views, initializedViews,
                       isPolyfillActive, layers, internalLayer, existingBaseLayer,
                       context, tempFramebuffer, forwarded, gl, pending, injectedFrameCallback, requested, pc,
                       framePose, frameContext, trace >>

\* the application calls binding.getSubImage with its frame callback's frame
GetSubImage(l, eye) == GetSubImageIn(l, eye, "session")

\* session.getViewIndex(view): the offset of the view in session.views
ViewIndex(v) == IF v = "view0" THEN 0 ELSE 1

\* SubImageCache.tryGetCachedViewSubImage: one (layer, view) entry per context
tryGetCachedViewSubImage(l, v) ==
    viewCache.set /\ viewCache.layer = l /\ viewCache.view = v

\* the XRWebGLSubImagePolyfill as constructed: getViewSubImage returns it as it
\* is when the session has no views yet
EmptySubImage ==
    [obj |-> subImages + 1, colorTexture |-> <<>>,
     depthStencilTexture |-> NullTexture, imageIndex |-> 0,
     textureWidth |-> 0, textureHeight |-> 0,
     viewport |-> [x |-> Frac(0, 1), y |-> Frac(0, 1),
                   width |-> Frac(0, 1), height |-> Frac(0, 1)]]

\* the sub-image getViewSubImage builds for a projection layer whose color
\* textures are allocated
NewViewSubImage(lr, v) ==
    LET index == ViewIndex(v)
        tt == lr.init.textureType
        textureIndex == IF lr.layout = "default" /\ tt = "texture" THEN index ELSE 0
        layerMeta == lr.texturesMeta[textureIndex + 1]
    IN [obj |-> subImages + 1,
        colorTexture |-> lr.colorTextures[textureIndex + 1],
        depthStencilTexture |-> DepthStencilTextureAt(lr, textureIndex),
        imageIndex |-> IF tt = "texture-array" THEN index ELSE 0,
        textureWidth |-> layerMeta.width,
        textureHeight |-> layerMeta.height,
        viewport |-> initializeViewport(layerMeta, lr.layout, index, views)]

\* XRWebGLBinding.getViewSubImage(layer, view): the sub-image returned, the
\* layer afterwards and whether the sub-image was built and cached (fresh)
getViewSubImage(l, v) ==
    LET lr == L[l]
        g == GetColorTextures(lr, views)
    IN IF tryGetCachedViewSubImage(l, v)
       THEN [sub |-> viewCache.sub, layer |-> lr, fresh |-> FALSE, new |-> FALSE]
       ELSE IF views = 0
       THEN [sub |-> EmptySubImage, layer |-> lr, fresh |-> FALSE, new |-> TRUE]
       ELSE LET d == GetDepthStencilTextures(g.layer, views).layer
            IN [sub |-> NewViewSubImage(d, v),
                layer |-> [d EXCEPT !.needsRedraw = JSFalse],
                fresh |-> TRUE, new |-> TRUE]

\* the application calls binding.getViewSubImage inside its frame callback with
\* a view of the frame's viewer pose
GetViewSubImage(l, v) ==
    LET r == getViewSubImage(l, v)
    IN /\ pc = "app"
       /\ IsProjection(l)
       /\ framePose
       /\ ViewIndex(v) < deviceViews
       /\ r.new => subImages < MaxSubImages
       /\ L' = [L EXCEPT ![l] = r.layer]
       /\ subImages' = IF r.new THEN subImages + 1 ELSE subImages
       /\ viewCache' = IF r.fresh
                       THEN [set |-> TRUE, layer |-> l, view |-> v, sub |-> r.sub]
                       ELSE viewCache
       /\ frameSubs' = IF frameSubs[<<l, v>>] = NoSub
                       THEN [frameSubs EXCEPT ![<<l, v>>] = r.sub]
                       ELSE frameSubs
       /\ ret' = [op |-> "getViewSubImage", layer |-> l, view |-> v, ok |-> TRUE,
                  sub |-> r.sub, fresh |-> r.fresh, first |-> frameSubs[<<l, v>>]]
       /\ UNCHANGED << global, ended, webgl2, deviceViews, referenceSpace, localSpace, views, initializedViews,
                       isPolyfillActive, layers, internalLayer, existingBaseLayer,
                       context, tempFramebuffer, taskQueue, forwarded, cache, gl,
                       pending, injectedFrameCallback, requested, pc, framePose, frameContext, trace, consumed >>

\* ------------------------------------------------- the application's other steps
\* the application assigns layer.needsRedraw (a public field of the polyfill)
SetNeedsRedraw(l, v) ==
    /\ IsLayer(l)
    /\ L[l].needsRedraw # v
    /\ L' = [L EXCEPT ![l].needsRedraw = v]
    /\ consumed' = IF v = JSTrue THEN [consumed EXCEPT ![l] = "fresh"] ELSE consumed
    /\ ret' = NoRet
    /\ KeepTrace
    /\ UNCHANGED << viewCache, subImages, global, ended, webgl2, deviceViews, referenceSpace, localSpace, views, initializedViews,
                    isPolyfillActive, layers, internalLayer, existingBaseLayer,
                    context, tempFramebuffer, taskQueue, forwarded, cache, gl,
                    pending, injectedFrameCallback, requested, pc, framePose, frameContext, frameSubs >>

\* the application reads layer.colorTextures, at any time
ReadColorTextures(l) ==
    LET g == GetColorTextures(L[l], views)
    IN /\ IsLayer(l)
       /\ L' = [L EXCEPT ![l] = g.layer]
       /\ ret' = [op |-> "colorTextures", layer |-> l, threw |-> g.threw,
                  value |-> IF g.threw THEN <<>> ELSE g.layer.colorTextures,
                  before |-> L[l].colorTextures, genBefore |-> L[l].gen]
       /\ KeepTrace
       /\ UNCHANGED << viewCache, subImages, global, ended, webgl2, deviceViews, referenceSpace, localSpace,
                       views, initializedViews, isPolyfillActive, layers,
                       internalLayer, existingBaseLayer, context, tempFramebuffer,
                       taskQueue, forwarded, cache, gl, pending, injectedFrameCallback, requested, pc, framePose,
                       frameContext, frameSubs, consumed >>

\* the application reads layer.depthStencilTextures, at any time
ReadDepthStencilTextures(l) ==
    LET g == GetDepthStencilTextures(L[l], views)
    IN /\ IsLayer(l)
       /\ L' = [L EXCEPT ![l] = g.layer]
       /\ ret' = [op |-> "depthStencilTextures", layer |-> l, threw |-> g.threw,
                  value |-> IF g.threw THEN <<>> ELSE g.layer.depthStencilTextures,
                  before |-> L[l].depthStencilTextures]
       /\ KeepTrace
       /\ UNCHANGED << viewCache, subImages, global, ended, webgl2, deviceViews, referenceSpace, localSpace,
                       views, initializedViews, isPolyfillActive, layers,
                       internalLayer, existingBaseLayer, context, tempFramebuffer,
                       taskQueue, forwarded, cache, gl, pending, injectedFrameCallback, requested, pc, framePose,
                       frameContext, frameSubs, consumed >>

\* XRCompositionLayerPolyfill.destroy
Destroy(l) ==
    /\ IsLayer(l)
    /\ L[l].colorTextures # <<>>
    /\ L[l].gen < MaxAllocs
    /\ L' = [L EXCEPT ![l].colorTextures = <<>>,
                      ![l].depthAssigned = TRUE,
                      ![l].depthStencilTextures = <<>>]
    /\ ret' = [op |-> "destroy", layer |-> l]
    /\ KeepTrace
    /\ UNCHANGED << viewCache, subImages, global, ended, webgl2, deviceViews, referenceSpace, localSpace, views, initializedViews,
                    isPolyfillActive, layers, internalLayer, existingBaseLayer,
                    context, tempFramebuffer, taskQueue, forwarded, cache, gl,
                    pending, injectedFrameCallback, requested, pc, framePose, frameContext, frameSubs, consumed >>

\* the GL state the application leaves behind in its frame callback
BlendFactors ==
    { [blendSrcRGB |-> "ONE", blendDstRGB |-> "ZERO",
       blendSrcAlpha |-> "ONE", blendDstAlpha |-> "ZERO"],
      [blendSrcRGB |-> "SRC_ALPHA", blendDstRGB |-> "ONE_MINUS_SRC_ALPHA",
       blendSrcAlpha |-> "ONE", blendDstAlpha |-> "ZERO"] }

AppGLStates ==
    { [blend |-> b, depthTest |-> d, cullFace |-> c,
       blendSrcRGB |-> f.blendSrcRGB, blendDstRGB |-> f.blendDstRGB,
       blendSrcAlpha |-> f.blendSrcAlpha, blendDstAlpha |-> f.blendDstAlpha,
       framebuffer |-> fb, readFramebuffer |-> rfb, clearColor |-> "zero"] :
         b \in BOOLEAN, d \in BOOLEAN, c \in BOOLEAN, f \in BlendFactors,
         fb \in {"null", "app"}, rfb \in {"null", "app"} }

\* the application's GL calls inside its frame callback (a WebGL 1 context has
\* one framebuffer binding only)
AppSetGL(g) ==
    /\ pc = "app"
    /\ context # "none"
    /\ webgl2 \/ g.readFramebuffer = g.framebuffer
    /\ gl # g
    /\ gl' = g
    /\ ret' = NoRet
    /\ UNCHANGED << viewCache, subImages, global, ended, webgl2, deviceViews, referenceSpace, localSpace, views, initializedViews,
                    isPolyfillActive, layers, internalLayer, existingBaseLayer,
                    context, tempFramebuffer, taskQueue, forwarded, L, cache,
                    pending, injectedFrameCallback, requested, pc, framePose, frameContext, trace, frameSubs,
                    consumed >>

\* initializeSession: the promise of requestReferenceSpace('local') resolves
ResolveReferenceSpace ==
    /\ ~referenceSpace
    /\ localSpace = "pending"
    /\ referenceSpace' = TRUE
    /\ localSpace' = "resolved"
    /\ ret' = NoRet
    /\ KeepTrace
    /\ UNCHANGED << viewCache, subImages, global, ended, webgl2, deviceViews, views, initializedViews, isPolyfillActive,
                    layers, internalLayer, existingBaseLayer, context,
                    tempFramebuffer, taskQueue, forwarded, L, cache, gl, pending, injectedFrameCallback, requested,
                    pc, framePose, frameContext, frameSubs, consumed >>

\* the host rejects the request for a 'local' reference space: the catch
\* handler does nothing and this.referenceSpace stays unset
RejectReferenceSpace ==
    /\ localSpace = "pending"
    /\ localSpace' = "rejected"
    /\ ret' = NoRet
    /\ KeepTrace
    /\ UNCHANGED << referenceSpace, viewCache, subImages, global, ended, webgl2, deviceViews, views, initializedViews, isPolyfillActive,
                    layers, internalLayer, existingBaseLayer, context,
                    tempFramebuffer, taskQueue, forwarded, L, cache, gl, pending, injectedFrameCallback, requested,
                    pc, framePose, frameContext, frameSubs, consumed >>

\* ------------------------------------------------------- frame compositor
\* session.requestAnimationFrame(cb): hands the injected frame callback to
\* the underlying session
\* requestAnimationFrame has no return statement: the caller gets undefined
NoHandle == [undefined |-> TRUE]

\* the injected frame callback is created at the first call only and calls
\* the animationFrameCallback of that call
InjectedCallbackAfter(cb) ==
    IF injectedFrameCallback = "none" THEN cb ELSE injectedFrameCallback

RequestAnimationFrameOf(cb) ==
    /\ pending < MaxPending
    /\ pending' = pending + 1
    /\ injectedFrameCallback' = InjectedCallbackAfter(cb)
    /\ requested' = Append(requested, cb)
    /\ ret' = [op |-> "requestAnimationFrame", callback |-> cb,
               handle |-> NoHandle, hostHandle |-> [id |-> pending + 1]]
    /\ KeepTrace
    /\ UNCHANGED << viewCache, subImages, global, ended, webgl2, deviceViews, referenceSpace, localSpace, views, initializedViews,
                    isPolyfillActive, layers, internalLayer, existingBaseLayer,
                    context, tempFramebuffer, taskQueue, forwarded, L, cache, gl,
                    framePose, frameContext, pc, frameSubs, consumed >>

\* the request of an application that passes the same callback every time
RequestAnimationFrame == RequestAnimationFrameOf("cb1")

\* the color textures the pre-clear pass clears of one projection layer:
\* those whose metadata type is not texture-array
RECURSIVE ClearedTextures(_)
ClearedTextures(metas) ==
    IF metas = <<>> THEN <<>>
    ELSE (IF Head(metas).type = "texture-array" THEN <<>>
          ELSE << [step |-> "clear", texture |-> Head(metas).texture] >>)
         \o ClearedTextures(Tail(metas))

\* the pre-clear loop over session.layers: only projection layers are cleared;
\* reading layer.colorTextures allocates them when the layer holds none
RECURSIVE PreClearLayers(_, _, _)
PreClearLayers(list, Lcur, numViews) ==
    IF list = <<>> THEN [L |-> Lcur, events |-> <<>>]
    ELSE LET e == Head(list)
         IN IF e = WebGLLayerEntry \/ Lcur[e].type # "projection"
            THEN PreClearLayers(Tail(list), Lcur, numViews)
            ELSE LET g == GetColorTextures(Lcur[e], numViews)
                     cleared == ClearedTextures(g.layer.texturesMeta)
                     \* a texture that is cleared has the layer's
                     \* depthStencilTextures read for its depth attachment
                     d == IF cleared = <<>> THEN g.layer
                          ELSE GetDepthStencilTextures(g.layer, numViews).layer
                     rest == PreClearLayers(Tail(list), [Lcur EXCEPT ![e] = d],
                                            numViews)
                 IN [L |-> rest.L, events |-> cleared \o rest.events]

\* GL state after the pre-clear pass: the scratch framebuffer is bound first and
\* the binding read back afterwards is the one "restored"; the clear color is
\* read before clearColor(0, 0, 0, 0) and set back
PreClearGL(g) ==
    LET bound == [g EXCEPT !.framebuffer = "temp", !.readFramebuffer = "temp"]
        existingClearColor == bound.clearColor
        existingFrameBuffer == bound.framebuffer
        clearing == [bound EXCEPT !.clearColor = "zero"]
    IN [clearing EXCEPT !.framebuffer = existingFrameBuffer,
                        !.readFramebuffer = existingFrameBuffer,
                        !.clearColor = existingClearColor]

\* the frame callback takes the views of the viewer pose
CapturesViewsEveryFrame(pose) == referenceSpace /\ pose

CapturesViews(pose) == ~initializedViews /\ referenceSpace /\ pose

\* the injected frame callback up to the call of the application's callback
FrameBegin(pose) ==
    LET captures == CapturesViews(pose)
        numViews == IF captures THEN deviceViews ELSE views
        initialized == initializedViews \/ captures
        cleared == PreClearLayers(layers, L, numViews)
    IN /\ pc = "idle"
       /\ pending > 0
       /\ pending' = pending - 1
       /\ requested' = Tail(requested)
       /\ UNCHANGED injectedFrameCallback
       /\ framePose' = pose
       /\ frameContext' = context
       /\ views' = numViews
       /\ initializedViews' = initialized
       /\ IF isPolyfillActive /\ initialized
          THEN /\ tempFramebuffer' = TRUE
               /\ gl' = PreClearGL(gl)
               /\ L' = cleared.L
               /\ trace' = cleared.events \o << [step |-> "callback"] >>
          ELSE /\ trace' = << [step |-> "callback"] >>
               /\ UNCHANGED << tempFramebuffer, gl, L >>
       /\ pc' = "app"
       /\ frameSubs' = [k \in LayerIds \X SubImageKeys |-> NoSub]
       /\ ret' = [op |-> "frameBegin", precleared |-> isPolyfillActive /\ initialized,
                  captured |-> captures,
                  invoked |-> injectedFrameCallback,
                  requested |-> Head(requested),
                  glBefore |-> [framebuffer |-> gl.framebuffer,
                                clearColor |-> gl.clearColor]]
       /\ UNCHANGED << viewCache, subImages, global, ended, webgl2, deviceViews, referenceSpace, localSpace, isPolyfillActive, layers,
                       internalLayer, existingBaseLayer, context, taskQueue,
                       forwarded, cache, consumed >>

\* the composite loop over session.layers from some entry on: renders every
\* layer with its renderer; a flat or cube renderer dereferences the frame's
\* viewer pose and throws when there is none
RECURSIVE RenderLayers(_, _, _)
RenderLayers(list, Lcur, pose) ==
    IF list = <<>> THEN [L |-> Lcur, events |-> <<>>, threw |-> FALSE]
    ELSE LET e == Head(list)
         IN IF e = WebGLLayerEntry
            THEN LET rest == RenderLayers(Tail(list), Lcur, pose)
                 IN [rest EXCEPT !.events =
                        (IF webgl2 THEN << [step |-> "blit"] >> ELSE <<>>) \o @]
            ELSE IF Lcur[e].type # "projection" /\ ~pose
            THEN [L |-> Lcur, events |-> <<>>, threw |-> TRUE]
            ELSE LET g == GetColorTextures(Lcur[e], views)
                     rest == RenderLayers(Tail(list), [Lcur EXCEPT ![e] = g.layer], pose)
                 IN IF g.threw THEN [L |-> [Lcur EXCEPT ![e] = g.layer],
                                     events |-> <<>>, threw |-> TRUE]
                    ELSE [rest EXCEPT !.events =
                             << [step |-> "render", layer |-> e] >> \o @]

\* GL state the composite pass sets up before the layer loop
\* (bindFramebuffer(FRAMEBUFFER, fb) binds fb for drawing and for reading)
CompositeGL(g) ==
    [g EXCEPT !.framebuffer = "base", !.readFramebuffer = "base",
              !.blend = TRUE, !.depthTest = FALSE, !.cullFace = FALSE,
              !.blendSrcRGB = "SRC_ALPHA", !.blendDstRGB = "ONE_MINUS_SRC_ALPHA",
              !.blendSrcAlpha = "SRC_ALPHA", !.blendDstAlpha = "ONE_MINUS_SRC_ALPHA"]

\* GL state after the layer loop: the blit of an XRWebGLLayer leaves its
\* framebuffer bound for reading; the renderers bind no framebuffer and touch
\* no toggle or blend function
LoopGL(g, events) ==
    IF \E i \in DOMAIN events : events[i].step = "blit"
    THEN [g EXCEPT !.readFramebuffer = "webgl-layer", !.framebuffer = "base"]
    ELSE g

\* blendFuncSeparate called with its arguments in the order they were read
RestoreGLFactorsAsRead(cur, prev) ==
    [cur EXCEPT !.blend = IF ~prev.blend THEN FALSE ELSE @,
                !.depthTest = IF prev.depthTest THEN TRUE ELSE @,
                !.cullFace = IF prev.cullFace THEN TRUE ELSE @,
                !.blendSrcRGB = prev.blendSrcRGB,
                !.blendDstRGB = prev.blendSrcAlpha,
                !.blendSrcAlpha = prev.blendDstRGB,
                !.blendDstAlpha = prev.blendDstAlpha,
                !.framebuffer = prev.framebuffer,
                !.readFramebuffer = prev.framebuffer]
\* "restore previous settings": prev is the GL state read before the pass
\* (the blend factors are read after enable/disable, which leave them alone)
RestoreGL(cur, prev) ==
    [cur EXCEPT !.blend = IF ~prev.blend THEN FALSE ELSE @,
                !.depthTest = IF prev.depthTest THEN TRUE ELSE @,
                !.cullFace = IF prev.cullFace THEN TRUE ELSE @,
                !.blendSrcRGB = prev.blendSrcRGB,
                !.blendDstRGB = prev.blendDstRGB,
                !.blendSrcAlpha = prev.blendSrcAlpha,
                !.blendDstAlpha = prev.blendDstAlpha,
                !.framebuffer = prev.framebuffer,
                !.readFramebuffer = prev.framebuffer]

\* "run task queue": every queued task sets its layer's needsRedraw to false
RECURSIVE RunTaskQueue(_, _)
RunTaskQueue(queue, Lcur) ==
    IF queue = <<>> THEN [L |-> Lcur, events |-> <<>>]
    ELSE LET rest == RunTaskQueue(Tail(queue),
                                  [Lcur EXCEPT ![Head(queue)].needsRedraw = JSFalse])
         IN [rest EXCEPT !.events = << [step |-> "task", layer |-> Head(queue)] >> \o @]

\* the task queue run before the layer loop
FlushThenComposite(renderSteps, taskSteps) == taskSteps \o renderSteps

\* the order of the composite pass and the task queue in the frame callback:
\* the layer loop runs to its end, the GL state is restored, then the tasks run
CompositeThenFlush(renderSteps, taskSteps) == renderSteps \o taskSteps

\* a sub-image cache once the frame is over: its sub-image is an object of an
\* earlier frame (the cache itself is never cleared)
EarlierFrame(c) == IF c.set THEN [c EXCEPT !.sub.obj = 0] ELSE c

\* the injected frame callback from the return of the application's callback:
\* the composite pass, the restore of the GL state and the task queue
FrameEnd ==
    LET composited == isPolyfillActive /\ initializedViews
        \* gl is undefined when the session had no context as the frame began
        noGL == frameContext = "none"
        rendered == RenderLayers(layers, L, framePose)
        looped == LoopGL(CompositeGL(gl), rendered.events)
        flushed == RunTaskQueue(taskQueue, rendered.L)
        threw == composited /\ (noGL \/ rendered.threw)
        subImaged == {l \in LayerIds : \E e \in Eyes : frameSubs[<<l, e>>] # NoSub}
    IN /\ pc = "app"
       /\ pc' = "idle"
       /\ IF ~composited \/ noGL
          THEN UNCHANGED << gl, L, taskQueue, consumed >>
          ELSE IF rendered.threw
          THEN /\ gl' = looped
               /\ L' = rendered.L
               /\ UNCHANGED << taskQueue, consumed >>
          ELSE /\ gl' = RestoreGL(looped, gl)
               /\ L' = flushed.L
               /\ taskQueue' = <<>>
               /\ consumed' = [l \in LayerIds |->
                                 IF consumed[l] = "called" THEN "flushed" ELSE consumed[l]]
       /\ trace' = <<>>
       /\ framePose' = FALSE
       /\ frameContext' = "none"
       /\ subImages' = 0
       /\ cache' = EarlierFrame(cache)
       /\ viewCache' = IF viewCache.set
                       THEN [EarlierFrame(viewCache) EXCEPT !.view = "earlier"]
                       ELSE viewCache
       /\ frameSubs' = [k \in LayerIds \X SubImageKeys |-> NoSub]
       /\ ret' = [op |-> "frameEnd", composited |-> composited, threw |-> threw,
                  subImaged |-> subImaged, queued |-> taskQueue,
                  layers |-> layers, glBefore |-> gl,
                  trace |-> IF ~composited \/ noGL THEN trace
                            ELSE IF rendered.threw THEN trace \o rendered.events
                            ELSE trace \o CompositeThenFlush(rendered.events,
                                                             flushed.events)]
       /\ UNCHANGED << global, ended, webgl2, deviceViews, referenceSpace, localSpace, views, initializedViews,
                       isPolyfillActive, layers, internalLayer, existingBaseLayer,
                       context, tempFramebuffer, forwarded, pending, injectedFrameCallback, requested >>

\* ------------------------------------------------------------ the polyfill
\* a page's global object, as far as the polyfill reads and writes it
HostGlobal(xr, webGLBinding, mediaBinding) ==
    [xr |-> xr, XRWebGLBinding |-> webGLBinding, XRMediaBinding |-> mediaBinding,
     sessionPrototype |-> "native", requestSession |-> "native"]

\* utils/is-layers-supported: layers are native when the page has both
\* bindings already
isLayersNativelySupported(g) ==
    g.XRWebGLBinding # "undefined" /\ g.XRMediaBinding # "undefined"

\* _polyfillRequiredLayersFeature, _polyfillXRSession and the two assignments
\* of _injectPolyfill
InjectedGlobal(g) ==
    [g EXCEPT !.requestSession = "polyfill", !.sessionPrototype = "polyfill",
              !.XRWebGLBinding = "polyfill", !.XRMediaBinding = "polyfill"]

\* the variant that sets the flag although the host has the bindings
ConstructedFlagAlways(g) == g.xr

ConstructedFlag(g) == g.xr /\ ~isLayersNativelySupported(g)

PolyfilledGlobal == InjectedGlobal(HostGlobal(TRUE, "undefined", "undefined"))

\* new WebXRLayersPolyfill(): _injectPolyfill on the page's global object
ConstructPolyfill ==
    /\ IF ~global.xr
       THEN /\ ret' = [op |-> "construct", threw |-> TRUE, injected |-> FALSE,
                       before |-> global]
            /\ global' = global
       ELSE IF isLayersNativelySupported(global)
       THEN /\ ret' = [op |-> "construct", threw |-> FALSE,
                       injected |-> ConstructedFlag(global),
                       before |-> global]
            /\ global' = global
       ELSE /\ ret' = [op |-> "construct", threw |-> FALSE, injected |-> TRUE,
                       before |-> global]
            /\ global' = InjectedGlobal(global)
    /\ UNCHANGED << ended, webgl2, deviceViews, referenceSpace, localSpace, views,
                    initializedViews, isPolyfillActive, layers, internalLayer,
                    existingBaseLayer, context, tempFramebuffer, taskQueue,
                    forwarded, L, cache, viewCache, subImages, gl, pending, injectedFrameCallback, requested, pc,
                    framePose, frameContext, trace, frameSubs, consumed >>

\* Array.prototype.indexOf, 1-based; 0 when the element is absent
IndexOf(s, x) ==
    IF \E i \in 1..Len(s) : s[i] = x
    THEN CHOOSE i \in 1..Len(s) : s[i] = x /\ \A j \in 1..(i - 1) : s[j] # x
    ELSE 0

\* Array.prototype.splice(i, 1) on a copy of s
SpliceOne(s, i) == [j \in 1..(Len(s) - 1) |-> IF j < i THEN s[j] ELSE s[j + 1]]

NoSessionInit == [undefined |-> TRUE]

HasRequiredLayers(init) ==
    /\ "requiredFeatures" \in DOMAIN init
    /\ IndexOf(init.requiredFeatures, "layers") > 0

\* newRequestSession: the init handed to requestSessionInternal, and the
\* caller's init object after the call (the splice works on copies)
newRequestSession(sessionMode, sessionInit) ==
    IF sessionMode # "immersive-vr" \/ sessionInit = NoSessionInit
       \/ ~HasRequiredLayers(sessionInit)
    THEN [forwarded |-> sessionInit, caller |-> sessionInit]
    ELSE LET reqFeatures == sessionInit.requiredFeatures
             layersIndex == IndexOf(reqFeatures, "layers")
         IN [forwarded |-> [sessionInit EXCEPT !.requiredFeatures =
                                SpliceOne(reqFeatures, layersIndex)],
             caller |-> sessionInit]

\* navigator.xr.requestSession(mode, init) once the polyfill replaced it
RequestSession(sessionMode, sessionInit) ==
    /\ global.requestSession = "polyfill"
    /\ LET r == newRequestSession(sessionMode, sessionInit)
       IN ret' = [op |-> "requestSession", mode |-> sessionMode,
                  init |-> sessionInit, forwarded |-> r.forwarded,
                  caller |-> r.caller]
    /\ UNCHANGED << global, ended, webgl2, deviceViews, referenceSpace, localSpace, views,
                    initializedViews, isPolyfillActive, layers, internalLayer,
                    existingBaseLayer, context, tempFramebuffer, taskQueue,
                    forwarded, L, cache, viewCache, subImages, gl, pending, injectedFrameCallback, requested, pc,
                    framePose, frameContext, trace, frameSubs, consumed >>

\* ---------------------------------------------------------- layer renderers
\* the bindings of the context a renderer reads and writes: the current
\* program and the texture bound to each target of texture unit 0
RenderTargets == {"TEXTURE_2D", "TEXTURE_2D_ARRAY", "TEXTURE_CUBE_MAP"}

\* the target a renderer samples
SampledTarget(renderer, textureArray) ==
    IF renderer = "cube" THEN "TEXTURE_CUBE_MAP"
    ELSE IF textureArray THEN "TEXTURE_2D_ARRAY"
    ELSE "TEXTURE_2D"

\* _renderInternal / _renderInternalStereo: gl.useProgram(this.program)
UseProgram(b) == [b EXCEPT !.program = "renderer"]

\* CompositionLayerRenderer.render and CubeRenderer.render: for every view
\* of the viewer pose the binding of the target is read, the layer's texture
\* bound, the view drawn and the binding put back
RECURSIVE RenderPerView(_, _, _)
RenderPerView(b, target, n) ==
    IF n = 0 THEN b
    ELSE LET existingTextureBinding == b[target]
             bound == [b EXCEPT ![target] = "layer"]
             drawn == UseProgram(bound)
         IN RenderPerView([drawn EXCEPT ![target] = existingTextureBinding],
                          target, n - 1)

\* ProjectionRenderer.render and ProjectionTextureArrayRenderer.render: the
\* layer's texture is bound once, every internal view drawn, and the target
\* bound to null
RECURSIVE DrawViews(_, _)
DrawViews(b, n) == IF n = 0 THEN b ELSE DrawViews(UseProgram(b), n - 1)

ProjectionRender(b, target, n) ==
    [DrawViews([b EXCEPT ![target] = "layer"], n) EXCEPT ![target] = "null"]

\* render of the renderer of a layer
RendererRender(renderer, textureArray, b, n) ==
    IF renderer = "projection"
    THEN ProjectionRender(b, SampledTarget(renderer, textureArray), n)
    ELSE RenderPerView(b, SampledTarget(renderer, textureArray), n)

\* a renderer's render is called with the bindings and views held in ret
Render ==
    /\ ret.op = "renderInput"
    /\ ret' = [op |-> "render", renderer |-> ret.renderer,
               textureArray |-> ret.textureArray, numViews |-> ret.numViews,
               target |-> SampledTarget(ret.renderer, ret.textureArray),
               before |-> ret.bindings,
               after |-> RendererRender(ret.renderer, ret.textureArray,
                                        ret.bindings, ret.numViews)]
    /\ UNCHANGED << global, ended, webgl2, deviceViews, referenceSpace, localSpace, views,
                    initializedViews, isPolyfillActive, layers, internalLayer,
                    existingBaseLayer, context, tempFramebuffer, taskQueue,
                    forwarded, L, cache, viewCache, subImages, gl, pending, injectedFrameCallback, requested, pc,
                    framePose, frameContext, trace, frameSubs, consumed >>

\* ------------------------------------------------------------- media binding
\* an init member that was not given (undefined)
NoNumber == Frac(0, 0)

FracDiv(a, b) == Frac(a.num * b.den, a.den * b.num)

\* XRMediaBinding.calculateAspectRatio
calculateAspectRatio(video, layout) ==
    LET width == IF layout = "stereo-left-right"
                 THEN Frac(video.videoWidth, 2) ELSE Frac(video.videoWidth, 1)
        height == IF layout = "stereo-top-bottom"
                  THEN Frac(video.videoHeight, 2) ELSE Frac(video.videoHeight, 1)
    IN FracDiv(width, height)

\* the init's width when neither width nor height was given
MediaInitWidth(init) ==
    IF init.width = NoNumber /\ init.height = NoNumber THEN Frac(1, 1) ELSE init.width

\* the init's height once an undefined height was derived from the width
MediaInitHeight(init, aspectRatio) ==
    IF init.height = NoNumber
    THEN FracDiv(MediaInitWidth(init), aspectRatio)
    ELSE init.height

\* XRMediaBinding.createQuadLayer(video, init) with the XRQuadLayer
\* constructor: the layer returned, or the error thrown; the input is in ret
MediaCreateQuadLayer ==
    LET init == ret.init
        aspectRatio == calculateAspectRatio(ret.video, init.layout)
        height == MediaInitHeight(init, aspectRatio)
        width == IF MediaInitWidth(init) = NoNumber
                 THEN FracDiv(height, aspectRatio)
                 ELSE MediaInitWidth(init)
    IN /\ ret.op = "mediaInput"
       /\ ret' = IF ended
                 THEN [op |-> "mediaCreateQuadLayer", video |-> ret.video,
                       init |-> init, ok |-> FALSE, error |-> "Error"]
                 ELSE IF init.layout = "default"
                 THEN [op |-> "mediaCreateQuadLayer", video |-> ret.video,
                       init |-> init, ok |-> FALSE, error |-> "TypeError"]
                 ELSE [op |-> "mediaCreateQuadLayer", video |-> ret.video,
                       init |-> init, ok |-> TRUE, error |-> "none",
                       layer |-> [type |-> "quad", media |-> TRUE,
                                  layout |-> init.layout, needsRedraw |-> JSFalse,
                                  width |-> width, height |-> height]]
       /\ UNCHANGED << global, ended, webgl2, deviceViews, referenceSpace, localSpace, views,
                       initializedViews, isPolyfillActive, layers, internalLayer,
                       existingBaseLayer, context, tempFramebuffer, taskQueue,
                       forwarded, L, cache, viewCache, subImages, gl, pending, injectedFrameCallback, requested, pc,
                       framePose, frameContext, trace, frameSubs, consumed >>

\* the underlying session ends between two frame callbacks (the application's
\* session.end() or the device); frame requests already handed to the
\* underlying session stay in flight
EndSession ==
    /\ ~ended
    /\ pc = "idle"
    /\ ended' = TRUE
    /\ ret' = [op |-> "end"]
    /\ UNCHANGED << global, webgl2, deviceViews, referenceSpace, localSpace, views, initializedViews,
                    isPolyfillActive, layers, internalLayer, existingBaseLayer,
                    context, tempFramebuffer, taskQueue, forwarded, L, cache,
                    viewCache, subImages, gl, pending, injectedFrameCallback, requested, pc, framePose, frameContext,
                    trace, frameSubs, consumed >>

\* ------------------------------------------------------------ specification
DefaultGL ==
    [blend |-> FALSE, depthTest |-> FALSE, cullFace |-> FALSE,
     blendSrcRGB |-> "ONE", blendDstRGB |-> "ZERO",
     blendSrcAlpha |-> "ONE", blendDstAlpha |-> "ZERO",
     framebuffer |-> "null", readFramebuffer |-> "null", clearColor |-> "zero"]

InitShim ==
    /\ ended = FALSE
    /\ webgl2 \in BOOLEAN
    /\ deviceViews \in {1, 2}
    /\ referenceSpace = FALSE
    /\ localSpace = "pending"
    /\ views = 0
    /\ initializedViews = FALSE
    /\ isPolyfillActive = FALSE
    /\ layers = <<>>
    /\ internalLayer = 0
    /\ existingBaseLayer = "none"
    /\ context = "none"
    /\ tempFramebuffer = FALSE
    /\ taskQueue = <<>>
    /\ forwarded = NoForward
    /\ L = [l \in LayerIds |-> NoLayer]
    /\ cache = NoCache
    /\ gl = DefaultGL
    /\ pending = 0
    /\ injectedFrameCallback = "none"
    /\ requested = <<>>
    /\ pc = "idle"
    /\ framePose = FALSE
    /\ frameContext = "none"
    /\ trace = <<>>
    /\ frameSubs = [k \in LayerIds \X SubImageKeys |-> NoSub]
    /\ viewCache = NoCache
    /\ subImages = 0
    /\ consumed = [l \in LayerIds |-> "fresh"]

\* the page after new WebXRLayersPolyfill() on a host without native layers:
\* the sessions and bindings of the model are the polyfill's
InitSession == InitShim /\ global = PolyfilledGlobal

Init == InitSession /\ ret = NoRet

\* the layer inits and layer arrays the application passes
FlatInits == [layout : {"mono", "stereo"}, isStatic : BOOLEAN,
              textureType : {"texture"}]
ProjectionInits == [textureType : TextureTypes]
CubeInits == [layout : {"stereo"}, isStatic : BOOLEAN]

\* every XRQuadLayerInit as to layout, isStatic and textureType
AllFlatInits == [layout : Layouts, isStatic : BOOLEAN, textureType : TextureTypes]

RECURSIVE SeqsUpTo(_, _)
SeqsUpTo(S, n) ==
    IF n = 0 THEN {<<>>}
    ELSE LET shorter == SeqsUpTo(S, n - 1)
         IN shorter \cup {Append(q, x) : q \in {r \in shorter : Len(r) = n - 1}, x \in S}

LayerArrays == SeqsUpTo({WebGLLayerEntry} \cup {l \in LayerIds : L[l].created}, MaxList)

RenderStateInits ==
    {[hasLayers |-> TRUE, layers |-> a, baseLayer |-> b] :
        a \in LayerArrays, b \in {"none", "app"}}
    \cup {[hasLayers |-> FALSE, layers |-> <<>>, baseLayer |-> "app"]}

\* The compositor scenario: an application that creates a non-static quad or
\* cube layer and then a projection layer, sets render state with any array of
\* them and of XRWebGLLayers, and runs frames in which it asks for the first
\* layer's sub-image
Next ==
    \/ \E init \in {i \in FlatInits : ~i.isStatic} :
          ~L[1].created /\ CreateFlatLayer("quad", init)
    \/ \E init \in {i \in CubeInits : ~i.isStatic} :
          ~L[1].created /\ CreateCubeLayer(init)
    \/ \E init \in ProjectionInits : L[1].created /\ CreateProjectionLayer(init)
    \/ \E init \in {i \in RenderStateInits : i.hasLayers => i.baseLayer = "none"} :
          updateRenderState(init)
    \/ ResolveReferenceSpace
    \/ RequestAnimationFrame
    \/ \E pose \in BOOLEAN : FrameBegin(pose)
    \/ GetSubImage(1, "left")
    \/ FrameEnd

InitCompositor == Init /\ webgl2 /\ deviceViews = 2

Spec == InitCompositor /\ [][Next]_vars

\* The render-state scenario: an application that creates up to MaxLayers
\* layers (mono quad, projection, cube) and sets render state in every way,
\* with and without a base layer of its own, on a WebGL 1 or a WebGL 2 context
NextRenderState ==
    \/ \E init \in {i \in FlatInits : ~i.isStatic /\ i.layout = "mono"} :
          CreateFlatLayer("quad", init)
    \/ \E init \in ProjectionInits : CreateProjectionLayer(init)
    \/ \E init \in {i \in CubeInits : ~i.isStatic} : CreateCubeLayer(init)
    \/ \E init \in RenderStateInits : updateRenderState(init)

InitRenderState == Init /\ deviceViews = 2

SpecRenderState == InitRenderState /\ [][NextRenderState]_vars

\* The redraw scenario: an application with one quad or cube layer, static or
\* not, that asks for sub-images of every eye, assigns needsRedraw and destroys
\* the layer's textures between and inside frames
InitRedraw == Init /\ webgl2 /\ deviceViews = 2

NextRedraw ==
    \/ \E init \in FlatInits : ~L[1].created /\ CreateFlatLayer("quad", init)
    \/ \E init \in CubeInits : ~L[1].created /\ CreateCubeLayer(init)
    \/ \E a \in {<<>>, <<1>>} :
          /\ L[1].created
          /\ updateRenderState([hasLayers |-> TRUE, layers |-> a, baseLayer |-> "none"])
    \/ ResolveReferenceSpace
    \/ RequestAnimationFrame
    \/ FrameBegin(TRUE)
    \/ \E eye \in Eyes : GetSubImage(1, eye)
    \/ \E v \in {JSTrue, JSFalse} : SetNeedsRedraw(1, v)
    \/ Destroy(1)
    \/ FrameEnd

SpecRedraw == InitRedraw /\ [][NextRedraw]_vars

\* The GL scenario: an application with one mono quad layer, composited alone
\* or over an XRWebGLLayer, that leaves any of AppGLStates behind when its
\* frame callback returns
NextGL ==
    \/ ~L[1].created
          /\ CreateFlatLayer("quad", [layout |-> "mono", isStatic |-> FALSE,
                                      textureType |-> "texture"])
    \/ \E a \in {<<1>>, <<WebGLLayerEntry, 1>>} :
          /\ L[1].created
          /\ updateRenderState([hasLayers |-> TRUE, layers |-> a, baseLayer |-> "none"])
    \/ ResolveReferenceSpace
    \/ RequestAnimationFrame
    \/ \E pose \in BOOLEAN : FrameBegin(pose)
    \/ \E g \in AppGLStates : AppSetGL(g)
    \/ FrameEnd

InitGL == Init /\ deviceViews = 2

\* The pre-clear scenario: an application with one projection layer that
\* leaves a framebuffer binding and a clear colour of its own behind
PreClearGLStates ==
    { [g EXCEPT !.framebuffer = fb, !.readFramebuffer = fb, !.clearColor = c] :
         g \in {a \in AppGLStates : ~a.blend /\ a.blendSrcRGB = "ONE"},
         fb \in {"null", "app"}, c \in {"zero", "app"} }

NextPreClear ==
    \/ \E init \in ProjectionInits : ~L[1].created /\ CreateProjectionLayer(init)
    \/ L[1].created
          /\ updateRenderState([hasLayers |-> TRUE, layers |-> << 1 >>,
                                baseLayer |-> "none"])
    \/ ResolveReferenceSpace
    \/ RequestAnimationFrame
    \/ FrameBegin(TRUE)
    \/ \E g \in PreClearGLStates : AppSetGL(g)
    \/ FrameEnd

InitPreClear == Init /\ webgl2 /\ deviceViews = 2

SpecPreClear == InitPreClear /\ [][NextPreClear]_vars

SpecGL == InitGL /\ [][NextGL]_vars

\* The sub-image scenario: an application with a quad layer and a projection
\* layer that asks, inside its frame callbacks, for sub-images of every eye of
\* the one and of every view of the other
InitCache == Init /\ webgl2 /\ deviceViews = 2

NextCache ==
    \/ \E init \in {i \in FlatInits : ~i.isStatic} :
          ~L[1].created /\ CreateFlatLayer("quad", init)
    \/ \E init \in ProjectionInits :
          L[1].created /\ ~L[2].created /\ CreateProjectionLayer(init)
    \/ L[2].created
          /\ updateRenderState([hasLayers |-> TRUE, layers |-> << 2, 1 >>,
                                baseLayer |-> "none"])
    \/ ResolveReferenceSpace
    \/ RequestAnimationFrame
    \/ FrameBegin(TRUE)
    \/ \E eye \in Eyes : GetSubImage(1, eye)
    \/ \E v \in Views : GetViewSubImage(2, v)
    \/ FrameEnd

SpecCache == InitCache /\ [][NextCache]_vars

\* The validation scenario: an application with one quad, cube or projection
\* layer of any layout that asks for its sub-images with frames of its own and
\* of another session, and destroys the layer
InitValidate == Init /\ webgl2 /\ deviceViews = 2

NextValidate ==
    \/ \E init \in {i \in AllFlatInits : ~i.isStatic} :
          ~L[1].created /\ CreateFlatLayer("quad", init)
    \/ \E init \in {i \in [layout : Layouts, isStatic : {FALSE}] : i.layout # "stereo"} :
          ~L[1].created /\ CreateCubeLayer(init)
    \/ \E init \in {i \in CubeInits : ~i.isStatic} :
          ~L[1].created /\ CreateCubeLayer(init)
    \/ \E init \in ProjectionInits : ~L[1].created /\ CreateProjectionLayer(init)
    \/ L[1].created
          /\ updateRenderState([hasLayers |-> TRUE, layers |-> << 1 >>,
                                baseLayer |-> "none"])
    \/ ResolveReferenceSpace
    \/ RequestAnimationFrame
    \/ FrameBegin(TRUE)
    \/ \E eye \in Eyes, fs \in FrameSessions : GetSubImageIn(1, eye, fs)
    \/ Destroy(1)
    \/ FrameEnd

SpecValidate == InitValidate /\ [][NextValidate]_vars

\* The layout scenario: an application on a WebGL 1 or WebGL 2 context, in a
\* session of one or two views, that creates one quad, cylinder, equirect or
\* projection layer of any layout and texture type, before or after the frame
\* in which the session captures its views, and asks for its sub-images
InitLayout == Init

NextLayout ==
    \/ \E type \in FlatTypes, init \in {i \in AllFlatInits : ~i.isStatic} :
          ~L[1].created /\ CreateFlatLayer(type, init)
    \/ \E init \in ProjectionInits : ~L[1].created /\ CreateProjectionLayer(init)
    \/ L[1].created
          /\ updateRenderState([hasLayers |-> TRUE, layers |-> << 1 >>,
                                baseLayer |-> "none"])
    \/ ResolveReferenceSpace
    \/ RequestAnimationFrame
    \/ FrameBegin(TRUE)
    \/ \E eye \in Eyes : GetSubImage(1, eye)
    \/ FrameEnd

SpecLayout == InitLayout /\ [][NextLayout]_vars

\* The viewport scenario: initializeViewport applied, for every view packed
\* into it, to a texture of any size up to MaxTextureSize, under every layout
\* and for up to MaxPacked views
TextureSizes == [width : 1..MaxTextureSize, height : 1..MaxTextureSize]

ViewportInputs ==
    [op : {"viewportInput"}, texture : TextureSizes, layout : Layouts,
     numViews : 1..MaxPacked]

\* the viewports of views 0 .. numViews - 1, each set by initializeViewport
InitializeViewports ==
    /\ ret.op = "viewportInput"
    /\ ret' = [op |-> "initializeViewport", texture |-> ret.texture,
               layout |-> ret.layout, numViews |-> ret.numViews,
               viewports |-> [i \in 1..ret.numViews |->
                                initializeViewport(ret.texture, ret.layout, i - 1,
                                                   ret.numViews)]]
    /\ UNCHANGED << global, ended, webgl2, deviceViews, referenceSpace, localSpace, views, initializedViews,
                    isPolyfillActive, layers, internalLayer, existingBaseLayer,
                    context, tempFramebuffer, taskQueue, forwarded, L, cache,
                    viewCache, subImages, gl, pending, injectedFrameCallback, requested, pc, framePose, frameContext,
                    trace, frameSubs, consumed >>

InitViewport == InitSession /\ webgl2 /\ deviceViews = 2 /\ ret \in ViewportInputs

NextViewport == InitializeViewports

SpecViewport == InitViewport /\ [][NextViewport]_vars

\* The session-end scenario: an application with a quad layer and a
\* projection layer whose session ends while a frame request is pending
InitEnded == Init /\ webgl2 /\ deviceViews = 2

NextEnded ==
    \/ \E init \in {i \in FlatInits : ~i.isStatic} :
          ~L[1].created /\ CreateFlatLayer("quad", init)
    \/ \E init \in ProjectionInits :
          L[1].created /\ ~L[2].created /\ CreateProjectionLayer(init)
    \/ L[2].created
          /\ updateRenderState([hasLayers |-> TRUE, layers |-> << 2, 1 >>,
                                baseLayer |-> "none"])
    \/ ResolveReferenceSpace
    \/ RequestAnimationFrame
    \/ \E pose \in BOOLEAN : FrameBegin(pose)
    \/ GetSubImage(1, "left")
    \/ FrameEnd
    \/ EndSession

SpecEnded == InitEnded /\ [][NextEnded]_vars

\* The texture scenario: an application with one quad, projection or cube
\* layer, with or without a depth format, that reads its colorTextures and
\* depthStencilTextures before and after the session has views, asks for its
\* sub-images, runs frames and destroys it
TextureFlatInits ==
    [layout : {"mono", "stereo"}, isStatic : {FALSE}, textureType : {"texture"},
     depthFormat : BOOLEAN]

TextureProjectionInits == [textureType : TextureTypes, depthFormat : BOOLEAN]

TextureCubeInits == [layout : {"stereo"}, isStatic : {FALSE}, depthFormat : BOOLEAN]

InitTextures == Init /\ webgl2

NextReads ==
    \/ \E init \in TextureFlatInits : ~L[1].created /\ CreateFlatLayer("quad", init)
    \/ \E init \in TextureProjectionInits : ~L[1].created /\ CreateProjectionLayer(init)
    \/ \E init \in TextureCubeInits : ~L[1].created /\ CreateCubeLayer(init)
    \/ L[1].created
          /\ updateRenderState([hasLayers |-> TRUE, layers |-> << 1 >>,
                                baseLayer |-> "none"])
    \/ ResolveReferenceSpace
    \/ RequestAnimationFrame
    \/ FrameBegin(TRUE)
    \/ GetSubImage(1, "left")
    \/ GetViewSubImage(1, "view0")
    \/ ReadColorTextures(1)
    \/ ReadDepthStencilTextures(1)
    \/ FrameEnd

\* the same without destroy()
SpecReads == InitTextures /\ [][NextReads]_vars

NextTextures ==
    \/ NextReads
    \/ Destroy(1)

SpecTextures == InitTextures /\ [][NextTextures]_vars

\* The media scenario: XRMediaBinding.createQuadLayer applied to a video of
\* any size up to MaxVideoSize and an init of any layout that gives width,
\* height, both or neither
Videos == [videoWidth : 1..MaxVideoSize, videoHeight : 1..MaxVideoSize]

MediaLengths == {NoNumber} \cup {Frac(n, 1) : n \in 1..MaxLayerSize}

MediaInputs ==
    [op : {"mediaInput"}, video : Videos,
     init : [layout : Layouts, width : MediaLengths, height : MediaLengths]]

InitMedia == InitSession /\ webgl2 /\ deviceViews = 2 /\ ret \in MediaInputs

NextMedia == MediaCreateQuadLayer

SpecMedia == InitMedia /\ [][NextMedia]_vars

\* the polyfill on a page: every host, then session requests through the
\* replaced requestSession
NativeBindings == {"undefined", "native"}

HostGlobals ==
    {HostGlobal(xr, w, m) : xr \in BOOLEAN, w \in NativeBindings, m \in NativeBindings}

SessionModes == {"inline", "immersive-vr", "immersive-ar"}

Features == {"layers", "local-floor", "hand-tracking"}

SessionInits ==
    {NoSessionInit, [optionalFeatures |-> <<>>]}
    \cup {[requiredFeatures |-> f] : f \in SeqsUpTo(Features, MaxFeatures)}

InitPolyfill == InitShim /\ webgl2 /\ deviceViews = 2 /\ global \in HostGlobals /\ ret = NoRet

NextPolyfill ==
    \/ ConstructPolyfill
    \/ \E mode \in SessionModes, init \in SessionInits : RequestSession(mode, init)

SpecPolyfill == InitPolyfill /\ [][NextPolyfill]_vars

\* The renderer scenario: render of each renderer, on a WebGL 2 context whose
\* program and unit-0 texture bindings are the application's or null, for a
\* frame with one or two views
Renderers == {"projection", "quad", "cylinder", "equirect", "cube"}

BoundObjects == {"null", "app"}

Bindings ==
    [program : BoundObjects, TEXTURE_2D : BoundObjects,
     TEXTURE_2D_ARRAY : BoundObjects, TEXTURE_CUBE_MAP : BoundObjects]

RenderInputs ==
    { i \in [op : {"renderInput"}, renderer : Renderers, textureArray : BOOLEAN,
              numViews : 1..MaxViews, bindings : Bindings] :
        i.renderer = "cube" => ~i.textureArray }

InitRender == InitSession /\ webgl2 /\ deviceViews = 2 /\ ret \in RenderInputs

NextRender == Render

SpecRender == InitRender /\ [][NextRender]_vars

\* The view scenario: an application with one projection layer, on a device
\* with one or two views, that asks for the sub-image of every view of its
\* frames and sets needsRedraw as it likes
NextViews ==
    \/ \E init \in ProjectionInits : ~L[1].created /\ CreateProjectionLayer(init)
    \/ L[1].created
          /\ updateRenderState([hasLayers |-> TRUE, layers |-> << 1 >>,
                                baseLayer |-> "none"])
    \/ ResolveReferenceSpace
    \/ RequestAnimationFrame
    \/ \E pose \in BOOLEAN : FrameBegin(pose)
    \/ \E v \in Views : GetViewSubImage(1, v)
    \/ \E v \in {JSTrue, JSFalse} : SetNeedsRedraw(1, v)
    \/ FrameEnd

InitViews == Init /\ webgl2

SpecViews == InitViews /\ [][NextViews]_vars

\* the same application when it may also destroy its layer
NextViewsDestroy ==
    \/ NextViews
    \/ Destroy(1)

SpecViewsDestroy == InitViews /\ [][NextViewsDestroy]_vars

\* The array scenario: an application with a quad layer and a projection
\* layer that passes an array of them to updateRenderState and later changes
\* that array
OwnLayerArrays ==
    {a \in LayerArrays : /\ \A i \in DOMAIN a : a[i] # WebGLLayerEntry
                         /\ \A i, j \in DOMAIN a : a[i] = a[j] => i = j}

NextArray ==
    \/ \E init \in {i \in FlatInits : ~i.isStatic} :
          ~L[1].created /\ CreateFlatLayer("quad", init)
    \/ \E init \in ProjectionInits :
          L[1].created /\ ~L[2].created /\ CreateProjectionLayer(init)
    \/ \E a \in OwnLayerArrays :
          /\ L[2].created /\ a # <<>>
          /\ updateRenderState([hasLayers |-> TRUE, layers |-> a, baseLayer |-> "none"])
    \/ \E a \in OwnLayerArrays : MutateLayersArray(a)
    \/ ResolveReferenceSpace
    \/ RequestAnimationFrame
    \/ FrameBegin(TRUE)
    \/ FrameEnd

InitArray == Init /\ webgl2 /\ deviceViews = 2

SpecArray == InitArray /\ [][NextArray]_vars

\* The callback scenario: an application that passes one of two callbacks
\* with each frame request, with a quad layer composited
Callbacks == {"cb1", "cb2"}

NextCallbacks ==
    \/ ~L[1].created
          /\ CreateFlatLayer("quad", [layout |-> "mono", isStatic |-> FALSE,
                                      textureType |-> "texture"])
    \/ L[1].created
          /\ updateRenderState([hasLayers |-> TRUE, layers |-> << 1 >>,
                                baseLayer |-> "none"])
    \/ ResolveReferenceSpace
    \/ \E cb \in Callbacks : RequestAnimationFrameOf(cb)
    \/ \E pose \in BOOLEAN : FrameBegin(pose)
    \/ GetSubImage(1, "left")
    \/ FrameEnd

InitCallbacks == Init /\ webgl2

SpecCallbacks == InitCallbacks /\ [][NextCallbacks]_vars

\* The frame-loop scenario: an application with one quad layer that keeps
\* requesting frames, on a host that settles the request for the 'local'
\* reference space either way and whose frames all yield a viewer pose
NextLoop ==
    \/ \E init \in {i \in FlatInits : ~i.isStatic} :
          ~L[1].created /\ CreateFlatLayer("quad", init)
    \/ L[1].created /\ ~isPolyfillActive
          /\ updateRenderState([hasLayers |-> TRUE, layers |-> << 1 >>,
                                baseLayer |-> "none"])
    \/ ResolveReferenceSpace
    \/ RejectReferenceSpace
    \/ RequestAnimationFrame
    \/ FrameBegin(TRUE)
    \/ \E eye \in {"left", "right"} : GetSubImage(1, eye)
    \/ FrameEnd

InitLoop == Init /\ webgl2

\* the host settles the promise and runs every requested frame to its end;
\* the application requests a frame whenever none is pending
SpecLoop ==
    /\ InitLoop
    /\ [][NextLoop]_vars
    /\ WF_vars(ResolveReferenceSpace \/ RejectReferenceSpace)
    /\ WF_vars(RequestAnimationFrame)
    /\ WF_vars(FrameBegin(TRUE))
    /\ WF_vars(FrameEnd)

\* ------------------------------------------------------------------ claims
\* the phase a step of a frame's record belongs to
Phase(e) ==
    CASE e.step = "clear" -> 1
      [] e.step = "callback" -> 2
      [] e.step \in {"render", "blit"} -> 3
      [] e.step = "task" -> 4

InPhaseOrder(tr) ==
    \A i, j \in DOMAIN tr : i < j => Phase(tr[i]) <= Phase(tr[j])

\* the layers a frame's record shows rendered, in the order of rendering
RECURSIVE RenderedLayers(_)
RenderedLayers(tr) ==
    IF tr = <<>> THEN <<>>
    ELSE (IF Head(tr).step = "render" THEN << Head(tr).layer >> ELSE <<>>)
         \o RenderedLayers(Tail(tr))

\* the composition layers of a layers array, in array order
RECURSIVE CompositionLayersOf(_)
CompositionLayersOf(list) ==
    IF list = <<>> THEN <<>>
    ELSE (IF Head(list) # WebGLLayerEntry THEN << Head(list) >> ELSE <<>>)
         \o CompositionLayersOf(Tail(list))

StepsOf(tr, step) == {i \in DOMAIN tr : tr[i].step = step}

\* C1: in a frame the pre-clear steps all come before the application's
\* callback, the callback before every render step, and the tasks run only
\* after the layer loop has rendered every composition layer of the list
C1_PhaseOrder ==
    /\ pc = "app" =>
          /\ trace # <<>>
          /\ trace[Len(trace)].step = "callback"
          /\ InPhaseOrder(trace)
    /\ ret.op = "frameEnd" =>
          /\ InPhaseOrder(ret.trace)
          /\ StepsOf(ret.trace, "task") # {} =>
                RenderedLayers(ret.trace) = CompositionLayersOf(ret.layers)

\* a frame that ran all four phases
C1_Witness ==
    /\ ret.op = "frameEnd"
    /\ ret.composited
    /\ \A step \in {"clear", "callback", "render", "task"} :
          StepsOf(ret.trace, step) # {}

\* C2: after updateRenderState with a layers array the session's layer list is
\* that array, the polyfill is active, the underlying session was handed an
\* init without layers whose baseLayer is the internal layer, and getBaseLayer
\* returns the internal layer
C2_UpdateRenderStateLayers ==
    (ret.op = "updateRenderState" /\ ret.init.hasLayers) =>
        /\ layers = ret.init.layers
        /\ isPolyfillActive
        /\ internalLayer # 0
        /\ forwarded.sent
        /\ ~forwarded.hasLayers
        /\ forwarded.baseLayer = [kind |-> "internal", id |-> internalLayer]
        /\ getBaseLayer = [kind |-> "internal", id |-> internalLayer]

\* updateRenderState with two different layers and a base layer of the
\* application's
C2_Witness ==
    /\ ret.op = "updateRenderState"
    /\ ret.init.hasLayers
    /\ ret.init.baseLayer = "app"
    /\ Len(layers) = MaxList
    /\ layers[1] # layers[2]
    /\ IsLayer(layers[1])

\* C3: the composite pass of a frame renders the composition layers of the
\* layer list, each entry once, in the order of the list, skipping none
C3_CompositeInListOrder ==
    (ret.op = "frameEnd" /\ ret.composited) =>
        RenderedLayers(ret.trace) = CompositionLayersOf(ret.layers)

\* a completed composite pass over the projection layer followed by the quad
\* or cube layer
C3_Witness ==
    /\ ret.op = "frameEnd"
    /\ ret.composited
    /\ ~ret.threw
    /\ ret.layers = << 2, 1 >>
    /\ RenderedLayers(ret.trace) = << 2, 1 >>

\* the color textures of the projection layers of a layers array
ProjectionTextures(list) ==
    UNION { SeqToSet(L[list[i]].colorTextures) :
              i \in {j \in DOMAIN list : IsProjection(list[j])} }

\* the color textures of the other composition layers of a layers array
OtherTextures(list) ==
    UNION { SeqToSet(L[list[i]].colorTextures) :
              i \in {j \in DOMAIN list : IsLayer(list[j]) /\ ~IsProjection(list[j])} }

ClearedTextureSet(tr) == {tr[i].texture : i \in StepsOf(tr, "clear")}

\* C4: when the application's callback starts in a frame with the polyfill
\* active and the views initialized, the textures cleared are exactly the color
\* textures of the projection layers of the layer list
C4_PreClearEveryProjectionTexture ==
    (ret.op = "frameBegin" /\ ret.precleared) =>
        /\ ClearedTextureSet(trace) = ProjectionTextures(layers)
        /\ ClearedTextureSet(trace) \cap OtherTextures(layers) = {}

\* a pre-clear pass over a list holding a projection layer
C4_Witness ==
    /\ ret.op = "frameBegin"
    /\ ret.precleared
    /\ ProjectionTextures(layers) # {}

\* the GL state the composite pass saves and restores
SavedGL(g) ==
    [blend |-> g.blend, depthTest |-> g.depthTest, cullFace |-> g.cullFace,
     blendSrcRGB |-> g.blendSrcRGB, blendDstRGB |-> g.blendDstRGB,
     blendSrcAlpha |-> g.blendSrcAlpha, blendDstAlpha |-> g.blendDstAlpha,
     framebuffer |-> g.framebuffer]

\* C5: after a composite pass that completes, BLEND, DEPTH_TEST, CULL_FACE, the
\* four blend factors and the framebuffer binding are what they were when the
\* application's callback returned
C5_GLStateRestored ==
    (ret.op = "frameEnd" /\ ret.composited /\ ~ret.threw) =>
        SavedGL(gl) = SavedGL(ret.glBefore)

\* a completed composite pass that rendered a layer for an application whose
\* GL state differs from the pass's own in every saved item
C5_Witness ==
    /\ ret.op = "frameEnd"
    /\ ret.composited
    /\ ~ret.threw
    /\ StepsOf(ret.trace, "render") # {}
    /\ ~ret.glBefore.blend
    /\ ret.glBefore.depthTest
    /\ ret.glBefore.cullFace
    /\ ret.glBefore.blendSrcAlpha = "ONE"
    /\ ret.glBefore.framebuffer = "app"
    /\ gl.framebuffer = "app"


\* C6: once a static layer has had a successful getSubImage and the task flush
\* that followed, and needsRedraw was not set true from outside since, a
\* getSubImage call on it fails
C6_StaticSingleDraw ==
    (ret.op = "getSubImage" /\ L[ret.layer].isStatic
        /\ ret.consumedBefore = "flushed") => ~ret.ok

\* a getSubImage call on a static layer after a successful call and its flush
C6_Witness ==
    /\ ret.op = "getSubImage"
    /\ L[ret.layer].isStatic
    /\ ret.consumedBefore = "flushed"
    /\ ~ret.ok

\* the second successful call on a static layer in one frame, for the other
\* eye, with the reset of needsRedraw waiting in the task queue
C7_Witness ==
    /\ ret.op = "getSubImage"
    /\ ret.ok
    /\ ret.eye = "right"
    /\ L[ret.layer].isStatic
    /\ ~ret.ranDeferredInitialize
    /\ ret.needsRedrawBefore = JSTrue
    /\ frameSubs[<< ret.layer, "left" >>] # NoSub
    /\ taskQueue # <<>>

\* C7: a successful getSubImage call leaves needsRedraw as it was, and right
\* after it a call for either eye of the same static layer succeeds
C7_NeedsRedrawUnchanged ==
    (ret.op = "getSubImage" /\ ret.ok) =>
        /\ L[ret.layer].needsRedraw = ret.needsRedrawBefore
        /\ L[ret.layer].isStatic =>
              \A eye \in {"left", "right"} : getSubImage(ret.layer, eye).ok

\* C8: when the frame callback returns, the task queue is empty
C8_QueueEmptyAtReturn ==
    (ret.op = "frameEnd" /\ ~ret.threw) => taskQueue = <<>>

\* a frame callback that returns with tasks queued in it
C8_Witness ==
    /\ ret.op = "frameEnd"
    /\ ~ret.threw
    /\ ret.queued # <<>>

\* C9: at the end of a frame with the polyfill active and the views
\* initialized, every layer of which getSubImage returned a sub-image in the
\* frame has needsRedraw false
C9_NeedsRedrawFalseAtFrameEnd ==
    (ret.op = "frameEnd" /\ ret.composited /\ ~ret.threw) =>
        \A l \in ret.subImaged : L[l].needsRedraw = JSFalse

\* the end of a composited frame in which a sub-image was returned
C9_Witness ==
    /\ ret.op = "frameEnd"
    /\ ret.composited
    /\ ~ret.threw
    /\ ret.subImaged # {}

SameSubImage(a, b) ==
    /\ a.colorTexture = b.colorTexture
    /\ a.imageIndex = b.imageIndex
    /\ FracEq(a.viewport.x, b.viewport.x)
    /\ FracEq(a.viewport.y, b.viewport.y)
    /\ FracEq(a.viewport.width, b.viewport.width)
    /\ FracEq(a.viewport.height, b.viewport.height)

\* C10: a successful getSubImage call returns the color texture, image index
\* and viewport that the first successful call for the same layer and eye in
\* the same frame returned
C10_SameSubImageWithinFrame ==
    (ret.op = "getSubImage" /\ ret.ok /\ ret.first # NoSub) =>
        SameSubImage(ret.sub, ret.first)

\* a second successful call for a layer and eye in one frame, with a call for
\* another eye in between
C10_Witness ==
    /\ ret.op = "getSubImage"
    /\ ret.ok
    /\ ret.first # NoSub
    /\ ret.fresh
    /\ SameSubImage(ret.sub, ret.first)

\* C11: a getSubImage or getViewSubImage call returns the very object that the
\* first call for the same layer and eye, or layer and view, returned in the
\* same frame
C11_SameSubImageObject ==
    (ret.op \in {"getSubImage", "getViewSubImage"} /\ ret.ok /\ ret.first # NoSub) =>
        ret.sub.obj = ret.first.obj

\* a second getViewSubImage call for a layer and view in one frame, answered
\* from the cache with the object of the first call
C11_Witness ==
    /\ ret.op = "getViewSubImage"
    /\ ret.first # NoSub
    /\ ~ret.fresh
    /\ ret.sub.obj = ret.first.obj
    /\ ret.sub.colorTexture # <<>>

\* C12: a getSubImage call with a frame of another session, or on a layer that
\* holds no color textures when the call is over, fails
C12_InvalidStateFails ==
    (ret.op = "getSubImage"
        /\ (ret.frameSession # "session" \/ L[ret.layer].colorTextures = <<>>)) =>
        ~ret.ok

\* a call with a frame of another session on a layer with textures in place,
\* refused by validateStateofSubImageCreation
C12_Witness ==
    /\ ret.op = "getSubImage"
    /\ ret.frameSession = "other"
    /\ L[ret.layer].colorTextures # <<>>
    /\ ~ret.ok
    /\ ret.error = "Error"

\* C13: a getSubImage call on a projection layer, on a layer whose layout is
\* default, or with eye 'none' on a layer whose layout is stereo when the call
\* is made, fails with TypeError; a failing call leaves the sub-image cache and
\* the task queue as they were
C13_TypeErrors ==
    ret.op = "getSubImage" =>
        /\ (\/ L[ret.layer].type = "projection"
            \/ ret.layoutBefore = "default"
            \/ (ret.eye = "none" /\ ret.layoutBefore = "stereo")) =>
              (~ret.ok /\ ret.error = "TypeError")
        /\ ~ret.ok => (ret.cacheKept /\ ret.queueKept)

\* a call with eye 'none' on a stereo cube layer, refused with TypeError while
\* a sub-image of the layer is cached and its task queued
C13_Witness ==
    /\ ret.op = "getSubImage"
    /\ ret.eye = "none"
    /\ ret.layoutBefore = "stereo"
    /\ L[ret.layer].type = "cube"
    /\ ~ret.ok
    /\ ret.error = "TypeError"
    /\ cache.set
    /\ taskQueue # <<>>

\* the half of a packed texture of width w and height h that belongs to an eye
PackedHalf(layout, eye, w, h) ==
    LET i == IF eye = "right" THEN 1 ELSE 0
    IN IF layout = "stereo-left-right"
       THEN [x |-> Frac(w * i, 2), y |-> Frac(0, 1),
             width |-> Frac(w, 2), height |-> Frac(h, 1)]
       ELSE [x |-> Frac(0, 1), y |-> Frac(h * i, 2),
             width |-> Frac(w, 1), height |-> Frac(h, 2)]

SameViewport(a, b) ==
    /\ FracEq(a.x, b.x)
    /\ FracEq(a.y, b.y)
    /\ FracEq(a.width, b.width)
    /\ FracEq(a.height, b.height)

\* C14: for a layer whose layout is stereo-left-right or stereo-top-bottom a
\* getSubImage call for the left or right eye returns color texture slot 0 and,
\* as viewport, the left (top) half of it for the left eye and the right
\* (bottom) half for the right eye
C14_PackedEyeViewports ==
    (ret.op = "getSubImage" /\ ret.ok /\ ret.eye \in {"left", "right"}
        /\ L[ret.layer].layout \in {"stereo-left-right", "stereo-top-bottom"}) =>
        /\ ret.sub.colorTexture = L[ret.layer].colorTextures[1]
        /\ SameViewport(ret.sub.viewport,
                        PackedHalf(L[ret.layer].layout, ret.eye,
                                   ret.sub.textureWidth, ret.sub.textureHeight))

\* a left-eye call on a stereo-top-bottom layer that returns the top half
C14_Witness ==
    /\ ret.op = "getSubImage"
    /\ ret.ok
    /\ ret.eye = "left"
    /\ L[ret.layer].layout = "stereo-top-bottom"
    /\ ret.sub.colorTexture = L[ret.layer].colorTextures[1]
    /\ SameViewport(ret.sub.viewport,
                    PackedHalf("stereo-top-bottom", "left",
                               ret.sub.textureWidth, ret.sub.textureHeight))

\* C15: a projection layer (the layer created with layout default) whose
\* textures exist in a session that has captured its views has layout mono
\* when the session has one view, and stereo-left-right when it has two and
\* the texture type is 'texture', whenever the layer was created
C15_DefaultLayoutResolved ==
    \A l \in LayerIds :
        (IsProjection(l) /\ initializedViews /\ L[l].colorTextures # <<>>) =>
            /\ deviceViews = 1 => L[l].layout = "mono"
            /\ (deviceViews = 2 /\ L[l].init.textureType = "texture") =>
                    L[l].layout = "stereo-left-right"

\* a projection layer of a one-view session that resolved to mono (it was
\* created after the views were captured) and holds its one texture
C15_Witness ==
    /\ IsProjection(1) /\ initializedViews /\ deviceViews = 1
    /\ L[1].layout = "mono"
    /\ Len(L[1].colorTextures) = 1

\* C16: a quad, cylinder or equirect layer of texture type 'texture' whose
\* colorTextures were read once views exist holds exactly one texture, of
\* W x H for layout mono, 2W x H for stereo-left-right and W x 2H for
\* stereo-top-bottom, and its texture metadata records those dimensions
C16_FlatTextureSizes ==
    \A l \in LayerIds :
        (IsLayer(l) /\ L[l].type \in FlatTypes /\ L[l].init.textureType = "texture"
            /\ L[l].init.layout \in {"mono", "stereo-left-right", "stereo-top-bottom"}
            /\ L[l].hasRunDeferredInitialize) =>
            LET w == ViewPixels.viewPixelWidth
                h == ViewPixels.viewPixelHeight
                lay == L[l].init.layout
            IN /\ views > 0
               /\ Len(L[l].colorTextures) = 1
               /\ Len(L[l].texturesMeta) = 1
               /\ L[l].texturesMeta[1].texture = L[l].colorTextures[1]
               /\ L[l].texturesMeta[1].width = (IF lay = "stereo-left-right" THEN 2 * w ELSE w)
               /\ L[l].texturesMeta[1].height = (IF lay = "stereo-top-bottom" THEN 2 * h ELSE h)

\* a getSubImage call whose read of colorTextures was the first one of a
\* stereo-left-right cylinder layer and created its one 2W x H texture
C16_Witness ==
    /\ ret.op = "getSubImage" /\ ret.ranDeferredInitialize
    /\ L[ret.layer].type = "cylinder"
    /\ L[ret.layer].init = [layout |-> "stereo-left-right", isStatic |-> FALSE,
                            textureType |-> "texture"]
    /\ Len(L[ret.layer].texturesMeta) = 1
    /\ L[ret.layer].texturesMeta[1].width = 2 * ViewPixels.viewPixelWidth
    /\ L[ret.layer].texturesMeta[1].height = ViewPixels.viewPixelHeight

\* C17: a quad, cylinder or equirect layer created with layout stereo whose
\* color textures are allocated holds two separate W x H textures when its
\* texture type is 'texture', and one array texture of 2 layers when it is
\* 'texture-array'
C17_StereoTextures ==
    \A l \in LayerIds :
        (IsLayer(l) /\ L[l].type \in FlatTypes /\ L[l].init.layout = "stereo"
            /\ L[l].colorTextures # <<>>) =>
            LET metas == L[l].texturesMeta
            IN IF L[l].init.textureType = "texture"
               THEN /\ Len(metas) = 2
                    /\ metas[1].texture # metas[2].texture
                    /\ \A i \in 1..2 : /\ metas[i].width = ViewPixels.viewPixelWidth
                                         /\ metas[i].height = ViewPixels.viewPixelHeight
               ELSE /\ Len(metas) = 1
                    /\ metas[1].type = "texture-array"
                    /\ metas[1].layers = 2

\* a getSubImage call whose read of colorTextures allocated the textures of a
\* quad layer created with layout stereo and texture type 'texture'
C17_Witness ==
    /\ ret.op = "getSubImage" /\ ret.ranDeferredInitialize
    /\ L[ret.layer].type = "quad"
    /\ L[ret.layer].init.layout = "stereo"
    /\ L[ret.layer].init.textureType = "texture"
    /\ L[ret.layer].colorTextures # <<>>

FracAdd(a, b) == Frac(a.num * b.den + b.num * a.den, a.den * b.den)

\* C18: initializeViewport over a W x H texture with n views and offset i
\* gives {x: W*i/n, y: 0, width: W/n, height: H} for stereo-left-right,
\* {x: 0, y: H*i/n, width: W, height: H/n} for stereo-top-bottom and the full
\* texture for every other layout; for n = 2 the two viewports are the two
\* halves: the first starts at 0, the second starts where the first ends and
\* ends at the texture's edge
C18_InitializeViewport ==
    ret.op = "initializeViewport" =>
        LET W == ret.texture.width
            H == ret.texture.height
            n == ret.numViews
        IN /\ \A k \in 1..n :
                LET i == k - 1
                    v == ret.viewports[k]
                IN CASE ret.layout = "stereo-left-right" ->
                          /\ FracEq(v.x, Frac(W * i, n)) /\ FracEq(v.y, Frac(0, 1))
                          /\ FracEq(v.width, Frac(W, n)) /\ FracEq(v.height, Frac(H, 1))
                     [] ret.layout = "stereo-top-bottom" ->
                          /\ FracEq(v.x, Frac(0, 1)) /\ FracEq(v.y, Frac(H * i, n))
                          /\ FracEq(v.width, Frac(W, 1)) /\ FracEq(v.height, Frac(H, n))
                     [] OTHER ->
                          /\ FracEq(v.x, Frac(0, 1)) /\ FracEq(v.y, Frac(0, 1))
                          /\ FracEq(v.width, Frac(W, 1)) /\ FracEq(v.height, Frac(H, 1))
           /\ (n = 2 /\ ret.layout = "stereo-left-right") =>
                /\ FracEq(ret.viewports[1].x, Frac(0, 1))
                /\ FracEq(FracAdd(ret.viewports[1].x, ret.viewports[1].width),
                          ret.viewports[2].x)
                /\ FracEq(FracAdd(ret.viewports[2].x, ret.viewports[2].width), Frac(W, 1))
           /\ (n = 2 /\ ret.layout = "stereo-top-bottom") =>
                /\ FracEq(ret.viewports[1].y, Frac(0, 1))
                /\ FracEq(FracAdd(ret.viewports[1].y, ret.viewports[1].height),
                          ret.viewports[2].y)
                /\ FracEq(FracAdd(ret.viewports[2].y, ret.viewports[2].height), Frac(H, 1))

\* the two viewports of a 3 x 4 stereo-left-right texture: the second one
\* starts at x = 3/2
C18_Witness ==
    /\ ret.op = "initializeViewport"
    /\ ret.layout = "stereo-left-right"
    /\ ret.numViews = 2
    /\ ret.texture = [width |-> 3, height |-> 4]
    /\ FracEq(ret.viewports[2].x, Frac(3, 2))
    /\ FracEq(ret.viewports[2].width, Frac(3, 2))

C20_TextureArrayNeedsWebGL2 ==
    (ret.op = "createLayer" /\ ret.type \in FlatTypes \cup {"projection"}
        /\ ret.init.textureType = "texture-array" /\ ~webgl2) =>
        /\ ~ret.ok
        /\ ~L[ret.id].created

\* a createProjectionLayer call asking for 'texture-array' on a WebGL 1
\* context that threw the TypeError and made no layer
C20_Witness ==
    /\ ret.op = "createLayer" /\ ret.type = "projection"
    /\ ret.init.textureType = "texture-array"
    /\ ~webgl2
    /\ ~ret.ok /\ ret.error = "TypeError"
    /\ ~L[ret.id].created

\* C21: a frame callback delivered after the session has ended does nothing:
\* the application callback does not run, and the frame has no pre-clear,
\* composite or task step
C21_EndedFrameIsNoOp ==
    ended =>
        /\ pc = "idle"
        /\ ret.op \in {"frameBegin", "frameEnd"} => trace = <<>>

\* a frame callback delivered after the session ended that pre-cleared the
\* projection layer's textures and runs the application callback
C21_Witness ==
    /\ ended
    /\ ret.op = "frameBegin" /\ ret.precleared
    /\ pc = "app"
    /\ \E i \in 1..Len(trace) : trace[i].step = "clear"

\* no sub-image of layer l has been returned yet: the binding's caches, which
\* keep the last sub-image returned, hold none of it (exact where the
\* application has one layer)
NoSubImageYet(l) ==
    /\ ~(cache.set /\ cache.layer = l)
    /\ ~(viewCache.set /\ viewCache.layer = l)

\* C22: every layer a create*Layer call returned has needsRedraw = true from
\* its return until a sub-image of it has been handed out
C22_NeedsRedrawFromCreation ==
    \A l \in LayerIds :
        (IsLayer(l) /\ NoSubImageYet(l)) => L[l].needsRedraw = JSTrue

\* a createProjectionLayer call that returned a layer whose needsRedraw is true
C22_Witness ==
    /\ ret.op = "createLayer" /\ ret.ok /\ ret.type = "projection"
    /\ NoSubImageYet(ret.layer)
    /\ L[ret.layer].needsRedraw = JSTrue

\* destroy() was called on the layer and it has no colour textures since:
\* only destroy() empties the list of a layer that had textures allocated
Destroyed(l) == IsLayer(l) /\ L[l].gen > 0 /\ L[l].colorTextures = <<>>

\* C23: once layer.destroy() has returned, the layer holds no color and no
\* depth/stencil textures and no later step, whatever is read or called,
\* gives it any
C23_DestroyedIsTerminal ==
    [][\A l \in LayerIds :
         Destroyed(l) => /\ L'[l].colorTextures = <<>>
                         /\ L'[l].depthStencilTextures = <<>>]_vars

\* a read of colorTextures of a layer that was destroyed (its textures were
\* allocated once and it holds none) which returns newly created textures
C23_Witness ==
    /\ ret.op = "colorTextures"
    /\ ret.genBefore = 1
    /\ ret.before = <<>>
    /\ ret.value # <<>>
    /\ L[ret.layer].gen = 2

\* the aspect ratio of one view of a video: videoWidth / videoHeight, the
\* width halved for stereo-left-right, the height halved for stereo-top-bottom
PerViewAspect(video, layout) ==
    CASE layout = "stereo-left-right" -> Frac(video.videoWidth, 2 * video.videoHeight)
      [] layout = "stereo-top-bottom" -> Frac(2 * video.videoWidth, video.videoHeight)
      [] OTHER -> Frac(video.videoWidth, video.videoHeight)

\* C24: a media quad layer created from an init that gives only one of width
\* and height, or neither, has width / height equal to the video's per-view
\* aspect ratio; with neither given its width is 1
C24_MediaQuadAspect ==
    (ret.op = "mediaCreateQuadLayer" /\ ret.ok
        /\ (ret.init.width = NoNumber \/ ret.init.height = NoNumber)) =>
        /\ FracEq(FracDiv(ret.layer.width, ret.layer.height),
                  PerViewAspect(ret.video, ret.init.layout))
        /\ (ret.init.width = NoNumber /\ ret.init.height = NoNumber) =>
                FracEq(ret.layer.width, Frac(1, 1))

\* a media quad layer made for a 3 x 2 stereo-left-right video from an init
\* giving only width 2: its height is 2 / (3/4) = 8/3
C24_Witness ==
    /\ ret.op = "mediaCreateQuadLayer" /\ ret.ok
    /\ ret.video = [videoWidth |-> 3, videoHeight |-> 2]
    /\ ret.init = [layout |-> "stereo-left-right", width |-> Frac(2, 1),
                   height |-> NoNumber]
    /\ FracEq(ret.layer.width, Frac(2, 1))
    /\ FracEq(ret.layer.height, Frac(8, 3))

\* both bindings are on the page already when the polyfill is constructed
BindingsExist(g) == g.XRWebGLBinding # "undefined" /\ g.XRMediaBinding # "undefined"

RECURSIVE Without(_, _)
Without(s, x) ==
    IF s = <<>> THEN <<>>
    ELSE IF Head(s) = x THEN Without(Tail(s), x)
    ELSE <<Head(s)>> \o Without(Tail(s), x)

\* C26: requestSession('immersive-vr', init) with 'layers' among
\* init.requiredFeatures forwards an init whose requiredFeatures has no
\* 'layers' entry and keeps every other feature in its order, and leaves the
\* caller's init as it was; every other call forwards the caller's init
\* unchanged.
C26_LayersFeatureStripped ==
    ret.op = "requestSession" =>
        /\ ret.caller = ret.init
        /\ IF ret.mode = "immersive-vr" /\ ret.init # NoSessionInit
              /\ HasRequiredLayers(ret.init)
           THEN /\ IndexOf(ret.forwarded.requiredFeatures, "layers") = 0
                /\ ret.forwarded.requiredFeatures
                       = Without(ret.init.requiredFeatures, "layers")
           ELSE ret.forwarded = ret.init

C26_Witness ==
    /\ ret.op = "requestSession"
    /\ ret.mode = "immersive-vr"
    /\ ret.init = [requiredFeatures |-> <<"local-floor", "layers", "hand-tracking">>]
    /\ ret.forwarded = [requiredFeatures |-> <<"local-floor", "hand-tracking">>]
    /\ ret.caller = ret.init

\* a step of the frame callback up to the application's callback
IsFrameBegin == pc = "idle" /\ pc' = "app"

\* C27: the view list is assigned at most once, in the first frame callback
\* that has the reference space and a viewer pose; in every later step, of a
\* frame or of any call, it stays the list captured then.
C27_ViewsCapturedOnce ==
    [][/\ initializedViews =>
            /\ initializedViews' /\ views' = views
            /\ IsFrameBegin => ~ret'.captured
       /\ ~initializedViews =>
            IF IsFrameBegin /\ referenceSpace /\ framePose'
            THEN ret'.captured /\ initializedViews' /\ views' = deviceViews
            ELSE ~initializedViews' /\ views' = views /\ views = 0]_vars

C27_Witness ==
    /\ ret.op = "frameBegin" /\ ~ret.captured
    /\ initializedViews /\ views = 2
    /\ referenceSpace /\ framePose

\* a read of colorTextures or depthStencilTextures of a projection, quad,
\* cylinder or equirect layer has just returned
ReadOfTextures(op) ==
    /\ ret.op = op
    /\ IsLayer(ret.layer)
    /\ L[ret.layer].type # "cube"

\* C28: while the view list is empty, reading colorTextures or
\* depthStencilTextures of a projection, quad, cylinder or equirect layer
\* creates no texture and leaves the layer without textures; the first read
\* after the views were captured allocates.
C28_NoTexturesBeforeViews ==
    /\ (ReadOfTextures("colorTextures") /\ views = 0) =>
            (ret.value = <<>> /\ L[ret.layer].colorTextures = <<>>)
    /\ (ReadOfTextures("depthStencilTextures") /\ views = 0) =>
            (ret.value = <<>> /\ L[ret.layer].depthStencilTextures = <<>>)
    /\ (ReadOfTextures("colorTextures") /\ views > 0 /\ ~ret.threw) =>
            (ret.value # <<>> /\ L[ret.layer].colorTextures = ret.value)

C28_Witness ==
    /\ ReadOfTextures("colorTextures")
    /\ L[ret.layer].type = "quad"
    /\ views = 0
    /\ ret.value = <<>>
    /\ L[ret.layer].gen = 0

\* C29: once a layer's colour textures are allocated, every later read, by
\* the application, getSubImage, getViewSubImage, the pre-clear pass or a
\* renderer, returns the same textures and creates no further one, as long as
\* destroy() is not called.
C29_AllocatedTexturesAreStable ==
    [][\A l \in LayerIds :
         (IsLayer(l) /\ L[l].colorTextures # <<>>) =>
            /\ L'[l].colorTextures = L[l].colorTextures
            /\ L'[l].gen = L[l].gen
            /\ (ret'.op = "colorTextures" /\ ret'.layer = l) =>
                   (~ret'.threw /\ ret'.value = L[l].colorTextures)]_vars

C29_Witness ==
    /\ ret.op = "colorTextures"
    /\ ret.before # <<>>
    /\ ret.value = ret.before
    /\ L[ret.layer].type = "quad"
    /\ L[ret.layer].gen = 1
    /\ trace # <<>>

\* C30: after the pre-clear pass, when the application's callback is invoked,
\* the FRAMEBUFFER binding and the clear colour are what they were at the
\* start of the frame callback, and the scratch framebuffer is not bound.
C30_PreClearRestoresGL ==
    (ret.op = "frameBegin" /\ ret.precleared) =>
        /\ gl.framebuffer = ret.glBefore.framebuffer
        /\ gl.clearColor = ret.glBefore.clearColor
        /\ gl.framebuffer # "temp"

C30_Witness ==
    /\ ret.op = "frameBegin" /\ ret.precleared
    /\ StepsOf(trace, "clear") # {}
    /\ ret.glBefore.clearColor = "app"
    /\ gl.clearColor = "app"

\* C31: when the render of any layer renderer returns, the texture bound to
\* the target it sampled and the current program are the ones bound when
\* render was called.
C31_RenderRestoresBindings ==
    ret.op = "render" =>
        /\ ret.after[ret.target] = ret.before[ret.target]
        /\ ret.after.program = ret.before.program

\* the render of a quad renderer that found the application's texture bound
\* to TEXTURE_2D and put it back
C31_Witness ==
    /\ ret.op = "render"
    /\ ret.renderer = "quad" /\ ~ret.textureArray
    /\ ret.before.TEXTURE_2D = "app"
    /\ ret.after.TEXTURE_2D = "app"
    /\ ret.after.program = "renderer"

\* C32: getViewSubImage never fails and its result does not depend on
\* needsRedraw; for the view at position i of the n captured views it returns
\* color texture slot 0 with the viewport of the packing rule for the layer's
\* layout at offset i of n, imageIndex i for a texture-array layer and 0
\* otherwise; with no views yet it returns an empty sub-image and caches
\* nothing.
C32_ViewSubImage ==
    ret.op = "getViewSubImage" =>
        LET lr == L[ret.layer]
            i == IF ret.view = "view1" THEN 1 ELSE 0
        IN /\ ret.ok
           /\ views = 0 =>
                 /\ ret.sub.colorTexture = <<>>
                 /\ ret.sub.textureWidth = 0
                 /\ ret.sub.viewport.width = Frac(0, 1)
                 /\ ~ret.fresh
                 /\ ~viewCache.set
           /\ views > 0 =>
                 /\ lr.colorTextures # <<>>
                 /\ ret.sub.colorTexture = lr.colorTextures[1]
                 /\ ret.sub.viewport
                       = initializeViewport(lr.texturesMeta[1], lr.layout, i, views)
                 /\ ret.sub.imageIndex
                       = IF lr.init.textureType = "texture-array" THEN i ELSE 0

\* the sub-image of the second of two views packed side by side, asked for
\* while needsRedraw was false
C32_Witness ==
    /\ ret.op = "getViewSubImage"
    /\ ret.view = "view1"
    /\ ret.fresh
    /\ views = 2
    /\ L[ret.layer].layout = "stereo-left-right"
    /\ ret.sub.viewport.x # Frac(0, 1)
    /\ \E k \in DOMAIN trace : trace[k].step = "callback"

\* C33: the active layer list changes only through updateRenderState:
\* changing the array that was passed to it does not change which layers
\* later frames pre-clear and composite.
C33_LayersChangeOnlyByUpdate ==
    [][layers' # layers => ret'.op = "updateRenderState"]_vars

\* the application has appended a layer to its array inside a frame
\* callback, after updateRenderState had returned
C33_Witness ==
    /\ ret.op = "mutateLayersArray"
    /\ ret.before = << 2 >>
    /\ ret.array = << 2, 1 >>
    /\ pc = "app"
    /\ forwarded.sent

\* C34: every requestAnimationFrame(cb) schedules cb itself: the callback
\* invoked in the frame that fulfils a request is the cb passed with that
\* request, also when it differs from the cb of earlier requests.
C34_RequestedCallbackInvoked ==
    ret.op = "frameBegin" => ret.invoked = ret.requested

\* a second frame whose request passed the callback of the first request
C34_Witness ==
    /\ ret.op = "frameBegin"
    /\ ret.precleared
    /\ ~ret.captured
    /\ ret.requested = "cb2"
    /\ ret.invoked = "cb2"

\* C35: requestAnimationFrame(cb) of a polyfilled session returns the handle
\* the underlying session's requestAnimationFrame returned for the request.
C35_HandleReturned ==
    ret.op = "requestAnimationFrame" => ret.handle = ret.hostHandle

\* C36: in every reachable state getBaseLayer() returns the layer most
\* recently installed as base layer of the underlying session: the internal
\* layer after updateRenderState with layers, the given baseLayer after a
\* later updateRenderState({baseLayer}) without layers.
C36_BaseLayerIsHostBaseLayer ==
    forwarded.sent => getBaseLayer = forwarded.baseLayer

\* after updateRenderState with layers the internal layer is the host's base
\* layer and the one getBaseLayer() returns
C36_Witness ==
    /\ ret.op = "updateRenderState"
    /\ ret.init.hasLayers
    /\ forwarded.sent
    /\ forwarded.baseLayer = [kind |-> "internal", id |-> internalLayer]
    /\ getBaseLayer = forwarded.baseLayer

\* C37: every sub-image getSubImage returns has a colorTexture that is one
\* of the layer's colorTextures at the time of the return, in any sequence
\* of getSubImage calls, destroy() calls and frames.
C37_SubImageTextureIsLayers ==
    (ret.op = "getSubImage" /\ ret.ok) =>
        \E i \in DOMAIN L[ret.layer].colorTextures :
            L[ret.layer].colorTextures[i] = ret.sub.colorTexture

\* a sub-image built by getSubImage after destroy() from the layer's newly
\* allocated textures
C37_Witness ==
    /\ ret.op = "getSubImage" /\ ret.ok
    /\ L[ret.layer].gen = 2
    /\ L[ret.layer].colorTextures # <<>>
    /\ ret.sub.colorTexture = L[ret.layer].colorTextures[1]

\* C38: a quad, cylinder or equirect layer created with a concrete layout
\* reports that layout in every later state; texture access and deferred
\* initialization never replace it.
C38_LayoutKept ==
    \A l \in LayerIds :
        (IsLayer(l) /\ L[l].type \in FlatTypes /\ L[l].init.layout # "default") =>
            L[l].layout = L[l].init.layout

\* a layer created with stereo-top-bottom that still reports it after its
\* deferred initialization and texture allocation
C38_Witness ==
    \E l \in LayerIds :
        /\ IsLayer(l) /\ L[l].type \in FlatTypes
        /\ L[l].init.layout = "stereo-top-bottom"
        /\ L[l].hasRunDeferredInitialize
        /\ L[l].colorTextures # <<>>
        /\ L[l].layout = "stereo-top-bottom"

\* C39: once updateRenderState with layers has been called, and the host
\* keeps invoking frame callbacks whose frames yield a viewer pose,
\* eventually a frame performs the composite pass and flushes the task queue,
\* whether the request for the 'local' reference space resolves or is
\* rejected.
C39_EventuallyComposited ==
    isPolyfillActive ~> (ret.op = "frameEnd" /\ ret.composited)

\* a frame that performed the composite pass on a host that resolved the
\* 'local' reference space
C39_Witness ==
    /\ ret.op = "frameEnd"
    /\ ret.composited
    /\ ~ret.threw
    /\ localSpace = "resolved"
    /\ StepsOf(ret.trace, "render") # {}

====
